---- MODULE Spec2Model ----
(***************************************************************************)
(* VISIA impact scoring engine (visia_calculators.py, visia_database.py,   *)
(* visia_reports.py), its web application (app.py) and the work plans of   *)
(* visia_mrosc.py.                                                         *)
(*                                                                         *)
(* Number representation.  The Python code computes on floats; the model   *)
(* computes the same expressions exactly, on integers:                     *)
(*   - money is held in tenths of a real (1 real = 10);                    *)
(*   - the reference ratios of the tables (1.5, 6.8, ...) are held in      *)
(*     tenths, as the tables write them;                                   *)
(*   - a value the code rounds to 2 decimals (sroi, roi_*, uisv) is held   *)
(*     in hundredths, one rounded to 1 decimal (payback) in tenths;        *)
(*   - int() truncates toward zero, round() goes to the nearest multiple.  *)
(*                                                                         *)
(* Binary floats.  A float holds the exact value of an expression only up  *)
(* to a relative error of about 1e-16.  That error is far smaller than the *)
(* distance between two distinct values of the model, so it shows only     *)
(* where the exact value sits on a discontinuity: round() of a value       *)
(* exactly halfway between two multiples returns either neighbour, and     *)
(* int() of a product of inexact factors (0.3, 0.05, 0.7) that is exactly  *)
(* an integer n returns n or the integer before it.  The model allows both *)
(* outcomes at these points, so every calculator yields the SET of the     *)
(* records the call can return.  A product of an integer by 3.5, 2.0 or    *)
(* 0.25 is exact in binary, and int(j * c) for c one of 0.02, 0.10, 0.15,  *)
(* 0.30, 0.48 returns the exact truncation for every count j below         *)
(* 200000: these are computed by Trunc, with one outcome.                  *)
(***************************************************************************)
EXTENDS Integers, Sequences, FiniteSets, TLC

VARIABLES
    tabelas,       \* the module-level reference tables of visia_database.py
    entrada,       \* the arguments of the scoring call
    pc,            \* "inicio": call not made yet; "fim": call returned or
                   \* raised; "relatorio": the recommendations were built
    resultado,     \* what the call returned (or the exception it raised)
    recomendacoes, \* what gerar_recomendacoes(resultado) returned
    relatorio,     \* the last report operation called on resultado, other
                   \* than gerar_recomendacoes, and what it returned
    historico,     \* history variable: the scoring calls made so far, each
                   \* with the tables it read and what it returned
    sessao,        \* st.session_state of one browser session of app.py
    tela,          \* what the last run of main() rendered
    auditoria      \* the entries app.py wrote with db.registrar_auditoria

vars == <<tabelas, entrada, pc, resultado, recomendacoes, relatorio, historico, sessao, tela, auditoria>>

Nenhum == [status |-> "nenhum"]

(***************************************************************************)
(* Arithmetic.  TLC's integers are 32-bit, so a * b / c is computed        *)
(* without forming a * b.                                                  *)
(***************************************************************************)

Max(a, b) == IF a >= b THEN a ELSE b
Min(a, b) == IF a <= b THEN a ELSE b
Abs(a) == IF a >= 0 THEN a ELSE -a

RECURSIVE MulDivMod(_, _, _)
\* [q, r] with a * b = q * c + r and 0 <= r < c, for a >= 0, b >= 0, c > 0
MulDivMod(a, b, c) ==
    IF b = 0 THEN [q |-> 0, r |-> 0]
    ELSE LET h  == MulDivMod(a, b \div 2, c)
             q2 == 2 * h.q + (2 * h.r) \div c
             r2 == (2 * h.r) % c
         IN  IF b % 2 = 0 THEN [q |-> q2, r |-> r2]
             ELSE [ q |-> q2 + (a \div c) + ((r2 + (a % c)) \div c),
                    r |-> (r2 + (a % c)) % c ]

\* [q, r] with a * b = q * c + r and 0 <= r < c, for any a, b and c > 0:
\* q = floor(a * b / c)
MulDivFloor(a, b, c) ==
    LET m == MulDivMod(Abs(a), Abs(b), c)
    IN  IF (a >= 0) = (b >= 0) \/ (m.q = 0 /\ m.r = 0) THEN m
        ELSE IF m.r = 0 THEN [q |-> -m.q, r |-> 0]
        ELSE [q |-> -m.q - 1, r |-> c - m.r]

(***************************************************************************)
(* Python builtins                                                         *)
(***************************************************************************)

\* int(a * b / c) for c > 0: truncation toward zero
Trunc(a, b, c) ==
    LET m == MulDivMod(Abs(a), Abs(b), c)
    IN  IF (a >= 0) = (b >= 0) THEN m.q ELSE -m.q

\* n / d (d > 0) written out to a multiple of 1/escala:
\* piso = floor(escala * n / d), resto / d the part that is left
Decimal(n, d, escala) ==
    LET m == MulDivFloor(n, escala, d)
    IN  [piso |-> m.q, resto |-> m.r, d |-> d]

\* int(a * b / c) for c > 0 where the factors are inexact floats: the exact
\* truncation, or one unit nearer zero when a * b / c is an integer
TruncFloat(a, b, c) ==
    LET m == MulDivMod(Abs(a), Abs(b), c)
        sinal == IF (a >= 0) = (b >= 0) THEN 1 ELSE -1
    IN  IF m.r = 0 /\ m.q > 0
        THEN {sinal * (m.q - 1), sinal * m.q}
        ELSE {sinal * m.q}

\* round() of a value written out by Decimal: the nearest multiple, either
\* neighbour when the value is halfway
Arredondar(x) ==
    IF 2 * x.resto > x.d THEN {x.piso + 1}
    ELSE IF 2 * x.resto < x.d THEN {x.piso}
    ELSE {x.piso, x.piso + 1}

\* round(n / d, 2), in hundredths (d > 0)
Round2(n, d) == Arredondar(Decimal(n, d, 100))

\* round(n / d, 1), in tenths (d > 0)
Round1(n, d) == Arredondar(Decimal(n, d, 10))

\* money is held in tenths of a real
Dec(reais) == 10 * reais

RECURSIVE SomaDe(_, _)
\* sum(f.values()) over the keys S of f
SomaDe(f, S) ==
    IF S = {} THEN 0
    ELSE LET k == CHOOSE x \in S : TRUE
         IN  f[k] + SomaDe(f, S \ {k})

(***************************************************************************)
(* Reference tables (visia_database.py)                                    *)
(***************************************************************************)

\* SROI_REFERENCIAS["por_tipo_projeto"], in tenths
SROI_POR_TIPO ==
    [ educacao_basica           |-> [min |-> 15, max |-> 35,  medio |-> 25],
      qualificacao_profissional |-> [min |-> 35, max |-> 68,  medio |-> 50],
      primeira_infancia         |-> [min |-> 70, max |-> 130, medio |-> 100],
      saude_preventiva          |-> [min |-> 20, max |-> 40,  medio |-> 30],
      meio_ambiente             |-> [min |-> 15, max |-> 40,  medio |-> 25],
      ressocializacao           |-> [min |-> 20, max |-> 50,  medio |-> 35],
      esporte_cultura           |-> [min |-> 12, max |-> 25,  medio |-> 18] ]

\* the default of get_sroi_referencia, in tenths
SROI_PADRAO == [min |-> 10, max |-> 30, medio |-> 20]

\* SEGURANCA_CRIME["custo_por_crime"], in tenths of a real
CUSTO_POR_CRIME ==
    [ homicidio           |-> Dec(1000000),
      latrocinio          |-> Dec(1200000),
      roubo_carga_medio   |-> Dec(114000),
      roubo_veiculo_medio |-> Dec(45000),
      furto_medio         |-> Dec(5000),
      estelionato_medio   |-> Dec(22000) ]

\* MEIO_AMBIENTE["custo_recuperacao_hectare"], in tenths of a real
CUSTO_RECUPERACAO_HECTARE ==
    [ amazonia              |-> Dec(2000),
      mata_atlantica        |-> Dec(2100),
      cerrado               |-> Dec(3000),
      caatinga              |-> Dec(1800),
      pantanal              |-> Dec(2200),
      pampa                 |-> Dec(1900),
      regeneracao_natural   |-> Dec(800),
      regeneracao_assistida |-> Dec(1200),
      plantio_total         |-> Dec(2500) ]

\* the tables as loaded at import
TabelasIniciais ==
    [ por_tipo_projeto          |-> SROI_POR_TIPO,
      custo_por_crime           |-> CUSTO_POR_CRIME,
      custo_recuperacao_hectare |-> CUSTO_RECUPERACAO_HECTARE ]

\* TRABALHO["arrecadacao_governo"], reais per worker and year
POR_SALARIO_MINIMO_ANO == 5004
POR_5_SALARIOS_ANO == 21804
POR_10_SALARIOS_ANO == 49420
\* PROGRAMAS_SOCIAIS["bolsa_familia"]["custo_familia_ano"], reais
CUSTO_FAMILIA_ANO == 8196
\* EDUCACAO["impacto"]["economia_evasao_evitada_min"], reais
ECONOMIA_EVASAO_EVITADA_MIN == 50000
\* SISTEMA_PRISIONAL["custos"], reais
CUSTO_PRESO_FEDERAL_ANO == 489600
CUSTO_PRESO_ESTADUAL_MEDIO_ANO == 27978
\* MEIO_AMBIENTE["carbono"]: t/ha/year, and USD per tonne
SEQUESTRO_FLORESTA_TON_HA_ANO == 10
PRECO_TONELADA_CO2_USD_MEDIO == 25
\* MACROECONOMIA["cotacao_dolar"] = 5.75, in tenths of a real of a real per USD
COTACAO_DOLAR_CENTAVOS == 575
\* MEIO_AMBIENTE["psa"], reais per hectare and year
VALOR_HECTARE_CONSERVADO_ANO_MIN == 500
VALOR_HECTARE_CONSERVADO_ANO_MAX == 1850
\* SROI_REFERENCIAS["multiplicadores"], medio, in tenths
MULT_FAMILIAR_MEDIO == 35
MULT_COMUNITARIO_MEDIO == 20

\* str.lower().replace(" ", "_") on the tags the callers pass: a tag written
\* with capitals or spaces is mapped to its table spelling, any other tag is
\* already in that form.
Normalizar(tag) ==
    CASE tag = "Primeira Infancia" -> "primeira_infancia"
      [] tag = "Mata Atlantica"    -> "mata_atlantica"
      [] OTHER                     -> tag

\* dict.get(key, default)
Get(dict, key, default) == IF key \in DOMAIN dict THEN dict[key] ELSE default

get_custo_recuperacao(tab, bioma) ==
    Get(tab.custo_recuperacao_hectare, Normalizar(bioma), Dec(2500))

get_sroi_referencia(tab, tipo_projeto) ==
    Get(tab.por_tipo_projeto, Normalizar(tipo_projeto), SROI_PADRAO)

get_custo_crime(tab, tipo_crime) ==
    Get(tab.custo_por_crime, tipo_crime, Dec(50000))

get_custo_preso_anual(tipo) ==
    IF tipo = "federal" THEN Dec(CUSTO_PRESO_FEDERAL_ANO)
    ELSE Dec(CUSTO_PRESO_ESTADUAL_MEDIO_ANO)

get_arrecadacao_trabalhador(salarios_minimos) ==
    IF salarios_minimos <= 1 THEN Dec(POR_SALARIO_MINIMO_ANO)
    ELSE IF salarios_minimos <= 5 THEN Dec(POR_5_SALARIOS_ANO)
    ELSE Dec(POR_10_SALARIOS_ANO)

get_economia_bolsa_familia_ano == Dec(CUSTO_FAMILIA_ANO)

\* a multiplier that divides by beneficiarios_diretos - 1: it raises for a
\* single beneficiary
MultiplicadorQueFalhaComUm(beneficiarios_diretos) ==
    IF beneficiarios_diretos \in {0, 1}
    THEN {[erro |-> "ZeroDivisionError"]}
    ELSE { [ erro                  |-> "",
             beneficiarios_diretos |-> beneficiarios_diretos,
             impacto_familiar      |-> Trunc(beneficiarios_diretos, 35, 10),
             impacto_comunitario   |-> 2 * Trunc(beneficiarios_diretos, 35, 10),
             impacto_total         |-> 2 * Trunc(beneficiarios_diretos, 35, 10),
             multiplicador_total   |-> 700 ] }

\* calcular_multiplicador_social: raises ZeroDivisionError on
\* impacto_comunitario / beneficiarios_diretos when there are no beneficiaries
calcular_multiplicador_social(beneficiarios_diretos) ==
    LET impacto_familiar == Trunc(beneficiarios_diretos, MULT_FAMILIAR_MEDIO, 10)
        impacto_comunitario == Trunc(impacto_familiar, MULT_COMUNITARIO_MEDIO, 10)
        \* round(impacto_comunitario / beneficiarios_diretos, 2)
        multiplicadores_totais ==
            IF beneficiarios_diretos > 0
            THEN Round2(impacto_comunitario, beneficiarios_diretos)
            ELSE Round2(-impacto_comunitario, -beneficiarios_diretos)
    IN  IF beneficiarios_diretos = 0
        THEN {[erro |-> "ZeroDivisionError"]}
        ELSE { [ erro                  |-> "",
                 beneficiarios_diretos |-> beneficiarios_diretos,
                 impacto_familiar      |-> impacto_familiar,
                 impacto_comunitario   |-> impacto_comunitario,
                 impacto_total         |-> impacto_comunitario,
                 multiplicador_total   |-> multiplicador_total ] :
               multiplicador_total \in multiplicadores_totais }


(***************************************************************************)
(* calcular_sroi (visia_calculators.py)                                    *)
(***************************************************************************)

\* the components of the social value that the signals present produce
ComponentesDosSinais(duracao_anos, empregos_gerados, familias_saem_vulnerabilidade, alunos_evitam_evasao, hectares_recuperados) ==
    LET presentes ==
            (IF empregos_gerados > 0 THEN {"empregos_gerados"} ELSE {})
            \cup (IF familias_saem_vulnerabilidade > 0
                  THEN {"saida_vulnerabilidade"} ELSE {})
            \cup (IF alunos_evitam_evasao > 0 THEN {"prevencao_evasao"} ELSE {})
            \cup (IF hectares_recuperados > 0
                  THEN {"recuperacao_ambiental"} ELSE {})
    IN  [ c \in presentes |->
            CASE c = "empregos_gerados" ->
                    empregos_gerados * get_arrecadacao_trabalhador(2) * duracao_anos
              [] c = "saida_vulnerabilidade" ->
                    familias_saem_vulnerabilidade * get_economia_bolsa_familia_ano
                        * duracao_anos
              [] c = "prevencao_evasao" ->
                    \* alunos * economia_evasao * 0.1
                    alunos_evitam_evasao * (Dec(ECONOMIA_EVASAO_EVITADA_MIN) \div 10)
              [] c = "recuperacao_ambiental" ->
                    \* hectares * t/ha/year * USD/t * BRL/USD * years;
                    \* 10 * 25 * 5.75 reais = 14375 tenths of a real
                    hectares_recuperados
                        * ((SEQUESTRO_FLORESTA_TON_HA_ANO * PRECO_TONELADA_CO2_USD_MEDIO
                            * COTACAO_DOLAR_CENTAVOS) \div 10)
                        * duracao_anos ]

\* the notes calcular_sroi appends, one per signal present, in code order
ObservacoesSROI(empregos_gerados, familias_saem_vulnerabilidade, alunos_evitam_evasao, hectares_recuperados) ==
    (IF empregos_gerados > 0 THEN <<"empregos gerando arrecadacao">> ELSE <<>>)
    \o (IF familias_saem_vulnerabilidade > 0
        THEN <<"familias saem do Bolsa Familia">> ELSE <<>>)
    \o (IF alunos_evitam_evasao > 0 THEN <<"alunos evitam evasao">> ELSE <<>>)
    \o (IF hectares_recuperados > 0 THEN <<"ha recuperados">> ELSE <<>>)

\* the value of one beneficiary alone: investimento * medio / beneficiarios
ValorBaseBeneficiario(investimento, medio, beneficiarios_diretos) ==
    MulDivFloor(investimento, medio, 10 * Abs(beneficiarios_diretos)).q

\* valor_base_beneficiario = investimento * medio / beneficiarios;
\* beneficiarios * valor_base_beneficiario * 0.5.  medio in tenths,
\* beneficiarios # 0: the value is
\* beneficiarios * investimento * medio / (10 * beneficiarios * 2).
ValorBeneficiarios(investimento, medio, beneficiarios_diretos) ==
    MulDivFloor(investimento, Abs(beneficiarios_diretos) * medio,
                10 * Abs(beneficiarios_diretos) * 2).q

\* the raw ratio with no band applied: calcular_sroi without its line 176
SroiSemFaixa(sroi_ref, sroi) == sroi

\* max(min * 0.5, min(sroi, max * 1.5)); the band and the value in hundredths,
\* sroi written out by Decimal(_, _, 100)
SroiAjustado(sroi_ref, sroi) ==
    LET piso == sroi_ref.min * 5
        teto == sroi_ref.max * 15
        exato(c) == [piso |-> c, resto |-> 0, d |-> 1]
        \* min(sroi, teto): teto when sroi > teto
        limitado == IF sroi.piso > teto \/ (sroi.piso = teto /\ sroi.resto > 0)
                    THEN exato(teto) ELSE sroi
    IN  \* max(piso, limitado): piso when limitado < piso
        IF limitado.piso < piso THEN exato(piso) ELSE limitado

calcular_sroi(tab, investimento, tipo_projeto, beneficiarios_diretos, duracao_anos, empregos_gerados, familias_saem_vulnerabilidade, alunos_evitam_evasao, hectares_recuperados) ==
    LET sroi_ref == get_sroi_referencia(tab, tipo_projeto)
        dos_sinais == ComponentesDosSinais(duracao_anos, empregos_gerados,
                          familias_saem_vulnerabilidade, alunos_evitam_evasao,
                          hectares_recuperados)
        sem_componentes == DOMAIN dos_sinais = {}
    IN  IF sem_componentes /\ beneficiarios_diretos = 0
        THEN {[erro |-> "ZeroDivisionError"]}
        ELSE
        LET componentes ==
                IF sem_componentes
                THEN [ c \in {"impacto_direto_beneficiarios"} |->
                         ValorBeneficiarios(investimento, sroi_ref.medio,
                                            beneficiarios_diretos) ]
                ELSE dos_sinais
            valor_social_bruto == SomaDe(componentes, DOMAIN componentes)
            valor_social_liquido == valor_social_bruto - investimento
            sroi == IF investimento > 0
                    THEN Decimal(valor_social_liquido, investimento, 100)
                    ELSE Decimal(0, 1, 100)
            sroi_ajustado == SroiAjustado(sroi_ref, sroi)
        IN  { [ erro                 |-> "",
                investimento         |-> investimento,
                valor_social_bruto   |-> valor_social_bruto,
                valor_social_liquido |-> valor_social_liquido,
                sroi                 |-> arredondado,
                sroi_range           |-> <<sroi_ref.min, sroi_ref.max>>,
                componentes          |-> componentes,
                metodologia          |-> "VISIA-SROI v1.0",
                observacoes          |-> ObservacoesSROI(empregos_gerados,
                                             familias_saem_vulnerabilidade,
                                             alunos_evitam_evasao,
                                             hectares_recuperados) ] :
              arredondado \in Arredondar(sroi_ajustado) }

(***************************************************************************)
(* calcular_impacto_crime                                                  *)
(***************************************************************************)

\* taxa_envolvimento_base, per thousand: 0.05 urban, 0.03 otherwise
TaxaEnvolvimentoBase(tipo_area) == IF tipo_area = "urbana" THEN 50 ELSE 30

\* the distribution of the avoided crimes over the categories
CrimesEvitados(jovens_evitam_crime) ==
    [ homicidios |-> Max(1, Trunc(jovens_evitam_crime, 2, 100)),
      roubos     |-> Trunc(jovens_evitam_crime, 15, 100),
      furtos     |-> Trunc(jovens_evitam_crime, 25, 100),
      trafico    |-> Trunc(jovens_evitam_crime, 10, 100),
      outros     |-> Trunc(jovens_evitam_crime, 48, 100) ]

\* taxa_reducao_crime in hundredths (0.70 -> 70)
calcular_impacto_crime(tab, investimento, beneficiarios_jovens, duracao_anos, taxa_reducao_crime, tipo_area) ==
    LET \* int(beneficiarios_jovens * taxa_envolvimento_base * taxa_reducao_crime)
        jovens_que_evitam ==
            TruncFloat(beneficiarios_jovens * TaxaEnvolvimentoBase(tipo_area),
                       taxa_reducao_crime, 100000)
        ResultadoCrime(jovens_evitam_crime) ==
            LET crimes_evitados == CrimesEvitados(jovens_evitam_crime)
                economia_homicidios ==
                    crimes_evitados.homicidios * get_custo_crime(tab, "homicidio")
                economia_roubos ==
                    crimes_evitados.roubos
                        * get_custo_crime(tab, "roubo_carga_medio")
                economia_furtos ==
                    crimes_evitados.furtos * get_custo_crime(tab, "furto")
                economia_trafico == crimes_evitados.trafico * Dec(100000)
                economia_outros == crimes_evitados.outros * Dec(20000)
                economia_total_crimes ==
                    economia_homicidios + economia_roubos + economia_furtos
                        + economia_trafico + economia_outros
                encarcerados_evitados == Trunc(jovens_evitam_crime, 30, 100)
                economia_encarceramento ==
                    encarcerados_evitados * get_custo_preso_anual("estadual")
                        * Min(duracao_anos, 5)
                \* economia_total_crimes * 0.15
                economia_seguranca == MulDivFloor(economia_total_crimes, 15, 100).q
                economia_saude ==
                    crimes_evitados.homicidios * Dec(50000)
                        + (crimes_evitados.roubos + crimes_evitados.outros)
                            * Dec(5000)
                economia_total ==
                    economia_total_crimes + economia_encarceramento
                        + economia_seguranca + economia_saude
            IN  { [ investimento            |-> investimento,
                    crimes_evitados         |-> crimes_evitados,
                    economia_total          |-> economia_total,
                    economia_encarceramento |-> economia_encarceramento,
                    economia_seguranca      |-> economia_seguranca,
                    economia_saude          |-> economia_saude,
                    roi_seguranca           |-> roi_seguranca,
                    observacoes             |->
                        << "jovens atendidos",
                           "jovens evitam envolvimento criminal",
                           "encarceramentos evitados",
                           "Economia total" >>,
                    \* not fields of ResultadoCrime: the locals the result
                    \* was built from
                    locais |-> [ jovens_evitam_crime   |-> jovens_evitam_crime,
                                 encarcerados_evitados |-> encarcerados_evitados,
                                 economia_total_crimes |-> economia_total_crimes ] ] :
                  roi_seguranca \in IF investimento > 0
                                    THEN Round2(economia_total, investimento)
                                    ELSE {0} }
    IN  UNION { ResultadoCrime(j) : j \in jovens_que_evitam }

(***************************************************************************)
(* calcular_impacto_ambiental                                              *)
(***************************************************************************)

\* the cost per hectare: the biome's, replaced by the method's when the
\* method is a key of the cost table
CustoHectare(tab, bioma, metodo_recuperacao) ==
    IF metodo_recuperacao \in DOMAIN tab.custo_recuperacao_hectare
    THEN tab.custo_recuperacao_hectare[metodo_recuperacao]
    ELSE get_custo_recuperacao(tab, bioma)

\* benefits from which the cost of the recovery is taken
BeneficiosLiquidosDoCusto(carbono, psa, biodiversidade, custo_total_recuperacao) ==
    carbono + psa + biodiversidade - custo_total_recuperacao

\* valor_total_beneficios (line 345); custo_total_recuperacao (line 319) is
\* computed by the code and not used
ValorTotalBeneficios(carbono, psa, biodiversidade, custo_total_recuperacao) ==
    carbono + psa + biodiversidade

calcular_impacto_ambiental(tab, investimento, hectares, bioma, metodo_recuperacao, anos_projeto, incluir_psa, incluir_carbono) ==
    LET custo_hectare == CustoHectare(tab, bioma, metodo_recuperacao)
        custo_total_recuperacao == hectares * custo_hectare
        toneladas_co2 ==
            IF incluir_carbono
            THEN hectares * SEQUESTRO_FLORESTA_TON_HA_ANO * anos_projeto ELSE 0
        \* toneladas * (25 USD * 5.75 BRL/USD)
        beneficios_carbono ==
            MulDivFloor(toneladas_co2,
                        PRECO_TONELADA_CO2_USD_MEDIO * COTACAO_DOLAR_CENTAVOS,
                        10).q
        valor_psa_hectare_ano ==
            Dec(VALOR_HECTARE_CONSERVADO_ANO_MIN + VALOR_HECTARE_CONSERVADO_ANO_MAX)
                \div 2
        beneficios_psa ==
            IF incluir_psa THEN hectares * valor_psa_hectare_ano * anos_projeto
            ELSE 0
        beneficios_biodiversidade == hectares * Dec(500) * anos_projeto
        valor_total_beneficios ==
            ValorTotalBeneficios(beneficios_carbono, beneficios_psa,
                                 beneficios_biodiversidade,
                                 custo_total_recuperacao)
    IN  { [ investimento               |-> investimento,
            hectares_recuperados       |-> hectares,
            bioma                      |-> bioma,
            custo_por_hectare          |-> custo_hectare,
            beneficios_carbono         |-> beneficios_carbono,
            beneficios_psa             |-> beneficios_psa,
            beneficios_biodiversidade  |-> beneficios_biodiversidade,
            valor_total_beneficios     |-> valor_total_beneficios,
            roi_ambiental              |-> roi_ambiental,
            toneladas_co2_sequestradas |-> toneladas_co2,
            observacoes                |->
                (IF incluir_carbono THEN <<"Sequestro">> ELSE <<>>)
                \o (IF incluir_psa THEN <<"PSA">> ELSE <<>>)
                \o <<"Bioma", "Metodo", "Custo recuperacao">>,
            \* not fields of ResultadoAmbiental: the arguments of the call
            locais |-> [ anos_projeto       |-> anos_projeto,
                         metodo_recuperacao |-> metodo_recuperacao ] ] :
          roi_ambiental \in
              IF investimento > 0
              THEN Round2(valor_total_beneficios - investimento, investimento)
              ELSE {0} }

(***************************************************************************)
(* calcular_retorno_fiscal                                                 *)
(***************************************************************************)

\* float('inf')
Infinito == [inf |-> TRUE, decimos |-> 0]
Finito(decimos) == [inf |-> FALSE, decimos |-> decimos]

\* a payback with no sentinel: 0 years when there is no return
PaybackSemSentinela(investimento_publico, retorno_fiscal_total, anos_horizonte) ==
    IF retorno_fiscal_total > 0 /\ anos_horizonte > 0
    THEN { Finito(decimos) :
             decimos \in Round1(investimento_publico * anos_horizonte,
                                retorno_fiscal_total) }
    ELSE {Finito(0)}

\* investimento / retorno_anual rounded to 1 decimal when retorno_anual > 0,
\* float('inf') otherwise; retorno_anual = total / horizonte (horizonte > 0)
\* or total
TempoPayback(investimento_publico, retorno_fiscal_total, anos_horizonte) ==
    IF retorno_fiscal_total > 0
    THEN { Finito(decimos) :
             decimos \in IF anos_horizonte > 0
                         THEN Round1(investimento_publico * anos_horizonte,
                                     retorno_fiscal_total)
                         ELSE Round1(investimento_publico, retorno_fiscal_total) }
    ELSE {Infinito}

calcular_retorno_fiscal(investimento_publico, empregos_gerados, familias_saem_bf, crimes_evitados, internacoes_evitadas, anos_horizonte) ==
    LET arrecadacao_empregos ==
            IF empregos_gerados > 0
            THEN empregos_gerados * get_arrecadacao_trabalhador(2) * anos_horizonte
            ELSE 0
        economia_bf ==
            IF familias_saem_bf > 0
            THEN familias_saem_bf * get_economia_bolsa_familia_ano * anos_horizonte
            ELSE 0
        economia_seguranca ==
            IF crimes_evitados > 0 THEN crimes_evitados * Dec(150000) ELSE 0
        economia_saude ==
            IF internacoes_evitadas > 0 THEN internacoes_evitadas * Dec(3500) ELSE 0
        retorno_fiscal_total ==
            arrecadacao_empregos + economia_bf + economia_seguranca + economia_saude
    IN  { [ investimento_publico       |-> investimento_publico,
            arrecadacao_gerada         |-> arrecadacao_empregos,
            economia_programas_sociais |-> economia_bf,
            economia_saude             |-> economia_saude,
            economia_seguranca         |-> economia_seguranca,
            retorno_fiscal_total       |-> retorno_fiscal_total,
            roi_fiscal                 |-> roi_fiscal,
            tempo_payback_anos         |-> tempo_payback,
            observacoes                |->
                (IF empregos_gerados > 0 THEN <<"empregos">> ELSE <<>>)
                \o (IF familias_saem_bf > 0 THEN <<"familias saem BF">> ELSE <<>>)
                \o (IF crimes_evitados > 0 THEN <<"crimes evitados">> ELSE <<>>)
                \o (IF internacoes_evitadas > 0
                    THEN <<"internacoes evitadas">> ELSE <<>>),
            \* not fields of ResultadoFiscal: the arguments of the call
            locais |-> [ anos_horizonte  |-> anos_horizonte,
                         crimes_evitados |-> crimes_evitados ] ] :
          roi_fiscal \in IF investimento_publico > 0
                         THEN Round2(retorno_fiscal_total, investimento_publico)
                         ELSE {0},
          tempo_payback \in TempoPayback(investimento_publico,
                                         retorno_fiscal_total, anos_horizonte) }

(***************************************************************************)
(* calcular_visia_integrado                                                *)
(***************************************************************************)

\* Python's None
None == [None |-> TRUE]

\* a sub-calculator given the whole budget instead of its share
OrcamentoInteiro(investimento_total, decimos) == investimento_total

\* investimento_total * 0.3, investimento_total * 0.4: decimos in tenths
Proporcao(investimento_total, decimos) ==
    MulDivFloor(investimento_total, decimos, 10).q

\* the thresholds compared with > instead of >=: a boundary value falls in
\* the lower tier
ClassificacaoEstrita(uisv) ==
    IF uisv > 2000 THEN "A"
    ELSE IF uisv > 1200 THEN "B"
    ELSE IF uisv > 600 THEN "C"
    ELSE "D"

\* step 8: the classification of a uisv given in hundredths
Classificacao(uisv) ==
    IF uisv >= 2000 THEN "A"
    ELSE IF uisv >= 1200 THEN "B"
    ELSE IF uisv >= 600 THEN "C"
    ELSE "D"

ObservacaoClassificacao(classificacao) ==
    CASE classificacao = "A" -> "Projeto de altissimo impacto"
      [] classificacao = "B" -> "Projeto de alto impacto"
      [] classificacao = "C" -> "Projeto de medio impacto"
      [] OTHER               -> "Projeto de baixo impacto - revisar estrategia"

\* step 7: max(100, int(uisv * 0.3 * (investimento_total / 10000)));
\* uisv in hundredths, investimento_total in tenths of a real
TcsRecomendados(uisv, investimento_total) ==
    { Max(100, tcs) : tcs \in TruncFloat(3 * uisv, investimento_total, 100000000) }

\* a bonus that is not dropped when the sub-result is absent
BonusSemCondicao(sub_resultado, campo) ==
    IF sub_resultado # None THEN sub_resultado[campo] ELSE 50

\* bonus_crime, bonus_ambiental: roi * 0.5 when the sub-result is there, else
\* 0; the bonus in two-hundredths
Bonus(sub_resultado, campo) ==
    IF sub_resultado # None THEN sub_resultado[campo] ELSE 0

\* the index with the weights of sroi and roi_fiscal exchanged
UisvPesosTrocados(sroi, roi_fiscal, impacto_total_pessoas, bonus_crime, bonus_ambiental) ==
    Round2(2 * ((sroi * 3) + (roi_fiscal * 2)) + 2 * impacto_total_pessoas
               + bonus_crime + bonus_ambiental, 200)

\* step 6: round(sroi * 2 + roi_fiscal * 3 + pessoas / 100 + bonuses, 2), in
\* hundredths; sroi and roi_fiscal in hundredths, bonuses in two-hundredths
Uisv(sroi, roi_fiscal, impacto_total_pessoas, bonus_crime, bonus_ambiental) ==
    LET uisv_base == (sroi * 2) + (roi_fiscal * 3)
        uisv_pessoas == impacto_total_pessoas
    IN  Round2(2 * uisv_base + 2 * uisv_pessoas + bonus_crime + bonus_ambiental,
               200)

\* step 4 with the crime sub-result never counted
SemCrimesEvitados(resultado_crime) == 0

\* step 4: crimes_evitados = 0; if resultado_crime:
\* crimes_evitados = sum(resultado_crime.crimes_evitados.values())
SomaCrimesEvitados(resultado_crime) ==
    IF resultado_crime # None
    THEN LET c == resultado_crime.crimes_evitados
         IN  c.homicidios + c.roubos + c.furtos + c.trafico + c.outros
    ELSE 0

\* a: the arguments of the call, investimento_total in whole reais.
\* chamadas: the calculators called, in call order.
calcular_visia_integrado(tab, a) ==
    LET investimento_total == Dec(a.investimento_total)
        resultados_sroi ==
            calcular_sroi(tab, investimento_total, a.tipo_projeto,
                          a.beneficiarios_diretos, a.duracao_anos,
                          a.empregos_gerados, a.familias_saem_vulnerabilidade,
                          a.alunos_evitam_evasao, a.hectares_recuperados)
        roda_crime == a.calcular_crime /\ a.jovens_atendidos > 0
        resultados_crime ==
            IF roda_crime
            THEN calcular_impacto_crime(tab, Proporcao(investimento_total, 3),
                                        a.jovens_atendidos, a.duracao_anos,
                                        70, "urbana")
            ELSE {None}
        roda_ambiental == a.calcular_ambiental /\ a.hectares_recuperados > 0
        resultados_ambiental ==
            IF roda_ambiental
            THEN calcular_impacto_ambiental(tab, Proporcao(investimento_total, 4),
                                            a.hectares_recuperados, a.bioma,
                                            "plantio_total",
                                            Max(a.duracao_anos, 10), TRUE, TRUE)
            ELSE {None}
        multiplicadores == calcular_multiplicador_social(a.beneficiarios_diretos)
        chamadas ==
            <<"calcular_sroi">>
            \o (IF roda_crime THEN <<"calcular_impacto_crime">> ELSE <<>>)
            \o (IF roda_ambiental THEN <<"calcular_impacto_ambiental">> ELSE <<>>)
            \o <<"calcular_retorno_fiscal", "calcular_multiplicador_social">>
        \* steps 4 to 8, from the results of steps 1 to 3 and 5
        Integrado(resultado_sroi, resultado_crime, resultado_ambiental,
                  multiplicador) ==
            IF resultado_sroi.erro # ""
            THEN {[status |-> resultado_sroi.erro, chamadas |-> <<"calcular_sroi">>]}
            ELSE IF multiplicador.erro # ""
            THEN {[status |-> multiplicador.erro, chamadas |-> chamadas]}
            ELSE
            LET crimes_evitados == SomaCrimesEvitados(resultado_crime)
                resultados_fiscal ==
                    calcular_retorno_fiscal(investimento_total, a.empregos_gerados,
                                            a.familias_saem_vulnerabilidade,
                                            crimes_evitados, 0,
                                            Max(a.duracao_anos, 10))
                impacto_total_pessoas == multiplicador.impacto_total
                bonus_crime == Bonus(resultado_crime, "roi_seguranca")
                bonus_ambiental == Bonus(resultado_ambiental, "roi_ambiental")
                ResultadoIntegrado(resultado_fiscal, uisv, tcs_recomendados) ==
                    LET classificacao == Classificacao(uisv)
                    IN  [ status                |-> "ok",
                          chamadas              |-> chamadas,
                          projeto               |-> a.nome_projeto,
                          investimento_total    |-> investimento_total,
                          beneficiarios_diretos |-> a.beneficiarios_diretos,
                          impacto_total_pessoas |-> impacto_total_pessoas,
                          sroi                  |-> resultado_sroi,
                          crime                 |-> resultado_crime,
                          ambiental             |-> resultado_ambiental,
                          fiscal                |-> resultado_fiscal,
                          uisv                  |-> uisv,
                          tcs_recomendados      |-> tcs_recomendados,
                          classificacao         |-> classificacao,
                          observacoes           |->
                              << ObservacaoClassificacao(classificacao),
                                 "Multiplicador social", "UISV" >>,
                          \* not fields of ResultadoIntegrado: the bonuses
                          \* added to uisv
                          locais |-> [ bonus_crime     |-> bonus_crime,
                                       bonus_ambiental |-> bonus_ambiental ] ]
                Pontuado(resultado_fiscal) ==
                    UNION { { ResultadoIntegrado(resultado_fiscal, uisv, tcs) :
                              tcs \in TcsRecomendados(uisv, investimento_total) } :
                            uisv \in Uisv(resultado_sroi.sroi,
                                          resultado_fiscal.roi_fiscal,
                                          impacto_total_pessoas,
                                          bonus_crime, bonus_ambiental) }
            IN  UNION { Pontuado(f) : f \in resultados_fiscal }
    IN  UNION { Integrado(s, c, e, m) :
                s \in resultados_sroi, c \in resultados_crime,
                e \in resultados_ambiental, m \in multiplicadores }

(***************************************************************************)
(* gerar_recomendacoes (visia_reports.py)                                  *)
(***************************************************************************)

\* tempo_payback_anos > anos
PaybackMaiorQue(tempo_payback_anos, anos) ==
    tempo_payback_anos.inf \/ tempo_payback_anos.decimos > 10 * anos

\* the rules with the one on the credits evaluated first
RecomendacoesComTcsPrimeiro(r) ==
    (IF r.tcs_recomendados > 5000 THEN <<"Emissao de TCS">> ELSE <<>>)
    \o (IF r.sroi.sroi < 10 * r.sroi.sroi_range[1]
        THEN <<"Otimizar SROI">> ELSE <<>>)
    \o (IF r.classificacao = "D" THEN <<"Revisar estrategia">>
        ELSE IF r.classificacao = "C" THEN <<"Potencial de melhoria">>
        ELSE <<>>)
    \o (IF PaybackMaiorQue(r.fiscal.tempo_payback_anos, 5)
        THEN <<"Acelerar retorno fiscal">> ELSE <<>>)
    \o (IF r.crime # None /\ r.crime.roi_seguranca > 200
        THEN <<"Destacar impacto em seguranca">> ELSE <<>>)
    \o (IF r.ambiental # None /\ r.ambiental.roi_ambiental > 100
        THEN <<"Potencial de creditos de carbono">> ELSE <<>>)

\* the list recomendacoes before the default is considered, in code order
RecomendacoesDasRegras(r) ==
    (IF r.sroi.sroi < 10 * r.sroi.sroi_range[1]
     THEN <<"Otimizar SROI">> ELSE <<>>)
    \o (IF r.classificacao = "D" THEN <<"Revisar estrategia">>
        ELSE IF r.classificacao = "C" THEN <<"Potencial de melhoria">>
        ELSE <<>>)
    \o (IF PaybackMaiorQue(r.fiscal.tempo_payback_anos, 5)
        THEN <<"Acelerar retorno fiscal">> ELSE <<>>)
    \o (IF r.crime # None /\ r.crime.roi_seguranca > 200
        THEN <<"Destacar impacto em seguranca">> ELSE <<>>)
    \o (IF r.ambiental # None /\ r.ambiental.roi_ambiental > 100
        THEN <<"Potencial de creditos de carbono">> ELSE <<>>)
    \o (IF r.tcs_recomendados > 5000 THEN <<"Emissao de TCS">> ELSE <<>>)

\* the entries of the rules alone, with no default entry
RecomendacoesSemPadrao(r) ==
    [ i \in 1..Len(RecomendacoesDasRegras(r)) |->
        [numero |-> i, texto |-> RecomendacoesDasRegras(r)[i]] ]

\* the text returned, as the sequence of its numbered entries
gerar_recomendacoes(r) ==
    LET das_regras == RecomendacoesDasRegras(r)
        lista == IF das_regras = <<>>
                 THEN <<"Manter a estrategia atual">>
                 ELSE das_regras
    IN  [ i \in 1..Len(lista) |-> [numero |-> i, texto |-> lista[i]] ]

(***************************************************************************)
(* The other report operations (visia_reports.py) and the JSON export of   *)
(* visia_calculators.py.  Each returns a text; the model keeps the values  *)
(* the text is formatted from, in the units of the result record, and not  *)
(* the fixed wording around them.  A call that raises returns a record     *)
(* whose status names the exception.                                       *)
(***************************************************************************)

\* a report operation that appends its note to the observations of the result
ResultadoAnotado(r, operacao) ==
    [r EXCEPT !.observacoes = Append(@, operacao)]

\* the result record once a report operation has returned: the operations
\* read its attributes and assign to none of them
ResultadoAposRelatorio(r, operacao) == r

\* sroi in hundredths, sroi_range in tenths
gerar_analise_sroi(resultado_sroi) ==
    LET sroi == resultado_sroi.sroi
        sroi_min == resultado_sroi.sroi_range[1]
        sroi_max == resultado_sroi.sroi_range[2]
    IN  [ status       |-> "ok",
          sroi         |-> sroi,
          qualificacao |->
              IF sroi >= 10 * sroi_max THEN "excepcional"
              ELSE IF 2 * sroi >= 10 * (sroi_min + sroi_max) THEN "muito bom"
              ELSE IF sroi >= 10 * sroi_min THEN "adequado"
              ELSE "abaixo do esperado",
          faixa        |-> resultado_sroi.sroi_range,
          componentes  |-> resultado_sroi.componentes ]

\* int(tempo_payback_anos * 2): OverflowError on float('inf')
AnosDeRetorno(tempo_payback_anos) ==
    IF tempo_payback_anos.inf
    THEN [status |-> "OverflowError"]
    ELSE [status |-> "ok", anos |-> Max(1, (2 * tempo_payback_anos.decimos) \div 10)]

gerar_consideracoes_finais(r) ==
    LET classificacao_texto ==
            [ A |-> "altissimo impacto social",
              B |-> "alto impacto social",
              C |-> "medio impacto social",
              D |-> "baixo impacto social, necessitando revisao" ]
        anos == AnosDeRetorno(r.fiscal.tempo_payback_anos)
    IN  IF anos.status # "ok"
        THEN anos
        ELSE [ status                |-> "ok",
               projeto               |-> r.projeto,
               impacto               |-> classificacao_texto[r.classificacao],
               beneficiarios_diretos |-> r.beneficiarios_diretos,
               impacto_total_pessoas |-> r.impacto_total_pessoas,
               investimento_total    |-> r.investimento_total,
               retorno_fiscal_total  |-> r.fiscal.retorno_fiscal_total,
               anos                  |-> anos.anos,
               roi_fiscal            |-> r.fiscal.roi_fiscal,
               tcs_recomendados      |-> r.tcs_recomendados ]

\* the section on crime of the full report, "" without a crime result
SecaoCrime(r) ==
    IF r.crime = None
    THEN [vazia |-> TRUE]
    ELSE LET c == r.crime.crimes_evitados
             soma == c.homicidios + c.roubos + c.furtos + c.trafico + c.outros
         IN  [ vazia                    |-> FALSE,
               jovens_afastados         |-> soma,
               homicidios_evitados      |-> c.homicidios,
               encarceramentos_evitados |-> Trunc(soma, 30, 100),
               economia_crime           |-> r.crime.economia_total,
               roi_seguranca            |-> r.crime.roi_seguranca,
               custo_preso              |-> CUSTO_PRESO_ESTADUAL_MEDIO_ANO ]

\* the section on the environment of the full report; bioma is the tag
\* before it is written in title case
SecaoAmbiental(r) ==
    IF r.ambiental = None
    THEN [vazia |-> TRUE]
    ELSE [ vazia             |-> FALSE,
           hectares          |-> r.ambiental.hectares_recuperados,
           bioma             |-> r.ambiental.bioma,
           co2               |-> r.ambiental.toneladas_co2_sequestradas,
           beneficio_carbono |-> r.ambiental.beneficios_carbono,
           beneficio_psa     |-> r.ambiental.beneficios_psa,
           valor_total       |-> r.ambiental.valor_total_beneficios,
           roi_ambiental     |-> r.ambiental.roi_ambiental,
           custo_hectare     |-> r.ambiental.custo_por_hectare ]

\* agora: the reading of the clock.  The contributions are in hundredths,
\* those of crime and environment in two-hundredths.
gerar_relatorio_completo(r, nome_elaborador, agora) ==
    LET analise_sroi == gerar_analise_sroi(r.sroi)
        secao_crime == SecaoCrime(r)
        secao_ambiental == SecaoAmbiental(r)
        lista == gerar_recomendacoes(r)
        consideracoes == gerar_consideracoes_finais(r)
    IN  IF consideracoes.status # "ok"
        THEN consideracoes
        ELSE [ status               |-> "ok",
               nome_projeto         |-> r.projeto,
               data_emissao         |-> agora,
               investimento         |-> r.investimento_total,
               indicadores          |-> <<r.beneficiarios_diretos,
                                          r.impacto_total_pessoas, r.sroi.sroi,
                                          r.uisv, r.tcs_recomendados,
                                          r.classificacao>>,
               analise_sroi         |-> analise_sroi,
               fiscal               |-> <<r.fiscal.arrecadacao_gerada,
                                          r.fiscal.economia_programas_sociais,
                                          r.fiscal.economia_seguranca,
                                          r.fiscal.economia_saude,
                                          r.fiscal.retorno_fiscal_total,
                                          r.fiscal.roi_fiscal,
                                          r.fiscal.tempo_payback_anos>>,
               secao_crime          |-> secao_crime,
               secao_ambiental      |-> secao_ambiental,
               contrib_sroi         |-> 2 * r.sroi.sroi,
               contrib_fiscal       |-> 3 * r.fiscal.roi_fiscal,
               contrib_pessoas      |-> r.impacto_total_pessoas,
               contrib_crime        |-> IF r.crime # None
                                        THEN r.crime.roi_seguranca ELSE 0,
               contrib_ambiental    |-> IF r.ambiental # None
                                        THEN r.ambiental.roi_ambiental ELSE 0,
               recomendacoes        |-> lista,
               consideracoes_finais |-> consideracoes ]

gerar_relatorio_resumido(r, agora) ==
    [ status                |-> "ok",
      projeto               |-> r.projeto,
      investimento_total    |-> r.investimento_total,
      beneficiarios_diretos |-> r.beneficiarios_diretos,
      impacto_total_pessoas |-> r.impacto_total_pessoas,
      sroi                  |-> r.sroi.sroi,
      marca_sroi            |-> IF r.sroi.sroi >= 200 THEN "Bom" ELSE "Regular",
      uisv                  |-> r.uisv,
      classificacao         |-> r.classificacao,
      tcs_recomendados      |-> r.tcs_recomendados,
      retorno_fiscal_total  |-> r.fiscal.retorno_fiscal_total,
      roi_fiscal            |-> r.fiscal.roi_fiscal,
      data                  |-> agora ]

\* numero_certificado "" or None: the number is made from the clock
gerar_certificado_impacto(r, numero_certificado, agora) ==
    [ status                |-> "ok",
      numero_certificado    |-> IF numero_certificado = ""
                                THEN <<"VISIA", agora>>
                                ELSE <<numero_certificado>>,
      projeto               |-> r.projeto,
      uisv                  |-> r.uisv,
      sroi                  |-> r.sroi.sroi,
      classificacao         |-> r.classificacao,
      tcs_recomendados      |-> r.tcs_recomendados,
      investimento_total    |-> r.investimento_total,
      beneficiarios_diretos |-> r.beneficiarios_diretos,
      impacto_total_pessoas |-> r.impacto_total_pessoas,
      data_emissao          |-> agora ]

exportar_dados_json(r, agora) ==
    [ status      |-> "ok",
      certificado |-> [ numero       |-> <<"VISIA", agora>>,
                        data_emissao |-> agora,
                        metodologia  |-> "VISIA v1.0",
                        emissor      |-> "IBEDIS" ],
      projeto     |-> [ nome                  |-> r.projeto,
                        investimento          |-> r.investimento_total,
                        beneficiarios_diretos |-> r.beneficiarios_diretos,
                        impacto_total         |-> r.impacto_total_pessoas ],
      indicadores |-> [ uisv             |-> r.uisv,
                        sroi             |-> r.sroi.sroi,
                        sroi_range       |-> r.sroi.sroi_range,
                        classificacao    |-> r.classificacao,
                        tcs_recomendados |-> r.tcs_recomendados ],
      fiscal      |-> [ retorno_total      |-> r.fiscal.retorno_fiscal_total,
                        roi                |-> r.fiscal.roi_fiscal,
                        payback_anos       |-> r.fiscal.tempo_payback_anos,
                        arrecadacao_gerada |-> r.fiscal.arrecadacao_gerada,
                        economia_programas |-> r.fiscal.economia_programas_sociais ],
      crime       |-> IF r.crime = None THEN None
                      ELSE [ economia_total  |-> r.crime.economia_total,
                             roi             |-> r.crime.roi_seguranca,
                             crimes_evitados |-> r.crime.crimes_evitados ],
      ambiental   |-> IF r.ambiental = None THEN None
                      ELSE [ hectares         |-> r.ambiental.hectares_recuperados,
                             bioma            |-> r.ambiental.bioma,
                             co2_toneladas    |-> r.ambiental.toneladas_co2_sequestradas,
                             valor_beneficios |-> r.ambiental.valor_total_beneficios,
                             roi              |-> r.ambiental.roi_ambiental ] ]

\* the fields of a dataclass instance: the record without what the model
\* adds to it (the locals kept in locais, the calls made, the status)
CamposDoDataclass(obj) ==
    [ k \in DOMAIN obj \ {"locais", "chamadas", "status", "erro"} |-> obj[k] ]

\* json.dumps of the whole result; float('inf') is written as Infinity
exportar_resultado_json(r) ==
    LET sub(obj) == IF obj = None THEN None ELSE CamposDoDataclass(obj)
    IN  [ status |-> "ok",
          dados  |-> [ k \in DOMAIN CamposDoDataclass(r) |->
                         IF k \in {"sroi", "crime", "ambiental", "fiscal"}
                         THEN sub(r[k]) ELSE r[k] ] ]

(***************************************************************************)
(* The web application (app.py): session, authentication, navigation and   *)
(* routing.  Each interaction runs the script with one widget pressed; the *)
(* handler changes st.session_state and calls st.rerun(), and main() then  *)
(* renders from the new state.  The database is known by the calls app.py  *)
(* makes to it: autenticar_usuario returns a user or nothing.              *)
(***************************************************************************)

\* the accounts the database can authenticate
Usuarios ==
    { [id |-> 1, tipo |-> "administrador"],
      [id |-> 2, tipo |-> "auditor"],
      [id |-> 3, tipo |-> "usuario"] }

\* a value other than None held by the session: the project, the extracted
\* data or the analysis result, known by its kind
Algum(objeto) == [objeto |-> objeto]

\* st.session_state after init_session() in a new browser session
init_session ==
    [ logged_in         |-> FALSE,
      user              |-> None,
      projeto_atual     |-> None,
      dados_extraidos   |-> None,
      resultado_analise |-> None,
      pagina            |-> "inicio" ]

\* login(email, senha), user being what db.autenticar_usuario returned
login(s, user) ==
    IF user # None
    THEN [s EXCEPT !.logged_in = TRUE, !.user = user]
    ELSE s

\* a logout that leaves the data of the session where they are
LogoutSemLimpar(s) == [s EXCEPT !.logged_in = FALSE, !.user = None]

\* logout(): the five assignments of lines 277 to 281
logout(s) ==
    [s EXCEPT !.logged_in = FALSE, !.user = None, !.projeto_atual = None,
              !.dados_extraidos = None, !.resultado_analise = None]

\* the pages of the buttons render_sidebar draws for the user
MenuItems(user) ==
    {"inicio", "upload", "analise_manual", "projetos", "relatorios"}
    \cup (IF user.tipo = "administrador"
          THEN {"admin", "usuarios", "api"} ELSE {})
    \cup (IF user.tipo \in {"administrador", "auditor"}
          THEN {"auditoria"} ELSE {})
    \cup {"sobre"}

\* the dict paginas of main()
paginas ==
    [ inicio            |-> "pagina_inicio",
      upload            |-> "pagina_upload",
      revisar_extracao  |-> "pagina_revisar_extracao",
      resultado_analise |-> "pagina_resultado_analise",
      analise_manual    |-> "pagina_analise_manual",
      projetos          |-> "pagina_projetos",
      sobre             |-> "pagina_sobre",
      admin             |-> "pagina_admin",
      usuarios          |-> "pagina_usuarios",
      auditoria         |-> "pagina_auditoria",
      relatorios        |-> "pagina_inicio",
      api               |-> "pagina_admin",
      detalhe_projeto   |-> "pagina_resultado_analise" ]

\* one run of main() on the session s: the function that rendered, the
\* message it showed and the sidebar buttons drawn
main(s, mensagem) ==
    IF ~s.logged_in
    THEN [ funcao   |-> IF s.pagina = "cadastro" THEN "render_cadastro"
                        ELSE "render_login",
           mensagem |-> mensagem,
           menu     |-> {} ]
    ELSE [ funcao   |-> Get(paginas, s.pagina, "pagina_inicio"),
           mensagem |-> mensagem,
           menu     |-> MenuItems(s.user) ]

\* pagina_analise_manual, when main() runs it, stores empty data, sets the
\* page to revisar_extracao and calls st.rerun()
AposAnaliseManual(s) ==
    IF s.logged_in /\ Get(paginas, s.pagina, "pagina_inicio") = "pagina_analise_manual"
    THEN [s EXCEPT !.dados_extraidos = Algum("dados"), !.pagina = "revisar_extracao"]
    ELSE s

\* what the buttons and forms of the page rendered by funcao may assign to
\* the session before st.rerun()
BotoesDaPagina(funcao, s) ==
    CASE funcao = "pagina_inicio" ->
             { [s EXCEPT !.pagina = "upload"],
               [s EXCEPT !.pagina = "analise_manual"],
               [s EXCEPT !.pagina = "projetos"],
               [s EXCEPT !.projeto_atual = Algum("projeto"),
                         !.pagina = "detalhe_projeto"] }
      [] funcao = "pagina_upload" ->
             { [s EXCEPT !.dados_extraidos = Algum("dados")],
               [s EXCEPT !.dados_extraidos = Algum("dados"),
                         !.projeto_atual = Algum("projeto"),
                         !.pagina = "detalhe_projeto"],
               [s EXCEPT !.dados_extraidos = Algum("dados"),
                         !.pagina = "revisar_extracao"] }
      [] funcao = "pagina_revisar_extracao" ->
             IF s.dados_extraidos = None THEN {}
             ELSE { [s EXCEPT !.resultado_analise = Algum("resultado"),
                              !.projeto_atual = Algum("projeto"),
                              !.pagina = "resultado_analise"] }
      [] funcao = "pagina_resultado_analise" ->
             IF s.resultado_analise = None THEN {}
             ELSE { [s EXCEPT !.pagina = "inicio"] }
      [] funcao = "pagina_projetos" ->
             { [s EXCEPT !.projeto_atual = Algum("projeto"),
                         !.pagina = "resultado_analise"],
               [s EXCEPT !.projeto_atual = Algum("projeto"),
                         !.resultado_analise = Algum("resultado"),
                         !.pagina = "resultado_analise"] }
      [] OTHER -> {}

(***************************************************************************)
(* The scoring calls checked                                               *)
(***************************************************************************)

\* how many multiples of each optional signal the inputs range over
MaxEmpregos == 1
MaxJovens == 1
MaxHectares == 1

\* the values of the enumeration TipoProjeto
TipoProjeto ==
    { "educacao", "qualificacao_profissional", "primeira_infancia",
      "meio_ambiente", "saude", "seguranca", "assistencia_social", "cultura",
      "esporte" }

TiposProjeto ==
    { "educacao",                  \* a TipoProjeto value, not a key of the table
      "qualificacao_profissional", \* a key of the table
      "Primeira Infancia",         \* a key once normalized
      "tipo_desconhecido" }        \* no TipoProjeto value, no key

Biomas == {"cerrado", "bioma_desconhecido"}

Argumentos(investimentos, tipos, beneficiarios, duracoes, empregos, familias, alunos, jovens, hectares, biomas, liga_crime, liga_ambiental) ==
    [ nome_projeto                  : {"Projeto Modelo"},
      investimento_total            : investimentos,
      tipo_projeto                  : tipos,
      beneficiarios_diretos         : beneficiarios,
      duracao_anos                  : duracoes,
      empregos_gerados              : empregos,
      familias_saem_vulnerabilidade : familias,
      alunos_evitam_evasao          : alunos,
      jovens_atendidos              : jovens,
      hectares_recuperados          : hectares,
      bioma                         : biomas,
      calcular_crime                : liga_crime,
      calcular_ambiental            : liga_ambiental ]

\* structurally valid inputs: investment > 0, beneficiaries >= 1,
\* duration >= 1, optional counts >= 0.  The biome is read only to restore
\* hectares, so it varies only where there are hectares.
EntradasValidas ==
    { a \in Argumentos({50000, 500000, 5000000}, TiposProjeto, {1, 200, 2000},
                       {2, 12},
                       {30 * k : k \in 0..MaxEmpregos},
                       {0, 40}, {0, 50},
                       {0, 10} \cup {150 * k : k \in 1..MaxJovens},
                       {20 * k : k \in 0..MaxHectares},
                       Biomas, BOOLEAN, BOOLEAN) :
        a.hectares_recuperados = 0 => a.bioma = "cerrado" }

\* inputs with a non-positive investment or less than one beneficiary
EntradasInvalidas ==
    Argumentos({-50000, 0}, {"educacao"}, {-5, 0, 200}, {2}, {0, 30}, {0}, {0},
               {0, 150}, {0, 20}, {"cerrado"}, {TRUE}, {TRUE})
    \cup Argumentos({500000}, {"educacao"}, {-5, 0}, {2}, {0, 30}, {0}, {0},
                    {0, 150}, {0, 20}, {"cerrado"}, {TRUE}, {TRUE})

\* inputs whose uisv falls on and just under the thresholds of the
\* classification: 20.00, 19.99, 12.00, 11.99, 6.00, 5.99
Cenario(investimento, beneficiarios, empregos) ==
    Argumentos({investimento}, {"educacao"}, {beneficiarios}, {2}, {empregos},
               {0}, {0}, {0}, {0}, {"cerrado"}, {TRUE}, {TRUE})

EntradasDeFronteira ==
    Cenario(100000, 178, 1) \cup Cenario(250000, 234, 1)
    \cup Cenario(250000, 45, 3) \cup Cenario(200000, 17, 3)
    \cup Cenario(1000000, 62, 1) \cup Cenario(250000, 34, 1)

\* an input whose product uisv * 0.3 * (investimento / 10000) is an integer:
\* 8.5 * 0.3 * 100 = 255
EntradasDeProdutoInteiro ==
    Argumentos({1000000}, {"educacao_basica"}, {100}, {2}, {0}, {0}, {0}, {0},
               {0}, {"cerrado"}, {TRUE}, {TRUE})

Entradas ==
    EntradasValidas \cup EntradasInvalidas \cup EntradasDeFronteira
        \cup EntradasDeProdutoInteiro

Valida(a) ==
    /\ a.investimento_total > 0
    /\ a.beneficiarios_diretos >= 1
    /\ a.duracao_anos >= 1
    /\ a.empregos_gerados >= 0
    /\ a.familias_saem_vulnerabilidade >= 0
    /\ a.alunos_evitam_evasao >= 0
    /\ a.jovens_atendidos >= 0
    /\ a.hectares_recuperados >= 0

\* tables whose project-type entries a call consumes (dict.pop for dict.get)
TabelasConsumidas(tab, a) ==
    [tab EXCEPT !.por_tipo_projeto = [k \in {} |-> SROI_PADRAO]]

\* the tables once a scoring call has returned: the calculators read them
\* with [] and .get() and assign to none of them
TabelasAposChamada(tab, a) == tab

\* what one call returns.  A float expression has one value for given
\* operands: a call on arguments and tables that an earlier call had returns
\* what that call returned; otherwise any of the records the floats allow.
Retornos(tab, a, anteriores) ==
    LET iguais == { i \in 1..Len(anteriores) :
                      anteriores[i].entrada = a /\ anteriores[i].tabelas = tab }
    IN  IF iguais # {}
        THEN { anteriores[i].resultado : i \in iguais }
        ELSE calcular_visia_integrado(tab, a)

Init ==
    /\ tabelas = TabelasIniciais
    /\ entrada \in Entradas
    /\ pc = "inicio"
    /\ resultado = Nenhum
    /\ recomendacoes = <<>>
    /\ relatorio = Nenhum
    /\ historico = <<>>
    /\ sessao = init_session
    /\ tela = Nenhum
    /\ auditoria = <<>>

\* one call of calcular_visia_integrado(**entrada): it returns one of the
\* records the floats allow, or raises
Calcular ==
    /\ pc = "inicio"
    /\ resultado' \in Retornos(tabelas, entrada, historico)
    /\ historico' = Append(historico, [ entrada   |-> entrada,
                                        tabelas   |-> tabelas,
                                        resultado |-> resultado' ])
    /\ tabelas' = TabelasAposChamada(tabelas, entrada)
    /\ pc' = "fim"
    /\ UNCHANGED <<entrada, recomendacoes, relatorio, sessao, tela, auditoria>>

\* gerar_recomendacoes(resultado), as gerar_relatorio_completo calls it on a
\* result the engine returned
GerarRecomendacoes ==
    /\ pc \in {"fim", "relatorio"}
    /\ resultado.status = "ok"
    /\ recomendacoes' = gerar_recomendacoes(resultado)
    /\ resultado' = ResultadoAposRelatorio(resultado, "gerar_recomendacoes")
    /\ pc' = "relatorio"
    /\ UNCHANGED <<tabelas, entrada, relatorio, historico, sessao, tela, auditoria>>

Next == Calcular \/ GerarRecomendacoes

Spec == Init /\ [][Next]_vars

(***************************************************************************)
(* A sequence of scoring calls in one process                              *)
(***************************************************************************)

\* how many calls a sequence makes
MaxChamadas == 3

EntradasEmSequencia ==
    { a \in Argumentos({500000, 5000000},
                       {"qualificacao_profissional", "tipo_desconhecido"},
                       {0, 200, 400}, {2}, {0}, {0}, {0}, {150}, {0},
                       {"cerrado"}, {TRUE}, {TRUE}) :
        /\ a.beneficiarios_diretos = 0 => a.investimento_total = 500000
        /\ a.beneficiarios_diretos = 400 =>
               /\ a.investimento_total = 500000
               /\ a.tipo_projeto = "qualificacao_profissional" }
    \cup Argumentos({5000000}, {"Primeira Infancia"}, {200}, {2}, {0}, {0, 40},
                    {0}, {150}, {0}, {"cerrado"}, {TRUE}, {TRUE})

InitSeq ==
    /\ tabelas = TabelasIniciais
    /\ entrada \in EntradasEmSequencia
    /\ pc = "inicio"
    /\ resultado = Nenhum
    /\ recomendacoes = <<>>
    /\ relatorio = Nenhum
    /\ historico = <<>>
    /\ sessao = init_session
    /\ tela = Nenhum
    /\ auditoria = <<>>

\* the caller makes another scoring call
OutraChamada ==
    /\ pc = "fim"
    /\ Len(historico) < MaxChamadas
    /\ entrada' \in EntradasEmSequencia
    /\ pc' = "inicio"
    /\ resultado' = Nenhum
    /\ UNCHANGED <<tabelas, recomendacoes, relatorio, historico, sessao, tela, auditoria>>

NextSeq == Calcular \/ OutraChamada

SpecSeq == InitSeq /\ [][NextSeq]_vars

(***************************************************************************)
(* The report operations called on a result, in any order                  *)
(***************************************************************************)

\* readings of the clock
Instantes == {"01/11/2026 10:00", "01/11/2026 10:01"}

\* the argument numero_certificado: "" stands for the default None
NumerosDeCertificado == {"", "VISIA-0001"}

\* valid inputs with and without fiscal return, crime result and
\* environmental result
EntradasDeRelatorio ==
    Argumentos({50000, 5000000}, {"educacao"}, {1, 2000}, {2},
               {30 * k : k \in 0..MaxEmpregos}, {0}, {0},
               {150 * k : k \in 0..MaxJovens},
               {20 * k : k \in 0..MaxHectares}, {"cerrado"}, {TRUE}, {TRUE})

InitRel ==
    /\ tabelas = TabelasIniciais
    /\ entrada \in EntradasDeRelatorio
    /\ pc = "inicio"
    /\ resultado = Nenhum
    /\ recomendacoes = <<>>
    /\ relatorio = Nenhum
    /\ historico = <<>>
    /\ sessao = init_session
    /\ tela = Nenhum
    /\ auditoria = <<>>

\* one call operacao(resultado, ...) that returned or raised retorno
Relatar(operacao, retorno) ==
    /\ pc \in {"fim", "relatorio"}
    /\ resultado.status = "ok"
    /\ relatorio' = [operacao |-> operacao, retorno |-> retorno]
    /\ resultado' = ResultadoAposRelatorio(resultado, operacao)
    /\ UNCHANGED <<tabelas, entrada, pc, recomendacoes, historico, sessao, tela, auditoria>>

GerarAnaliseSroi ==
    Relatar("gerar_analise_sroi", gerar_analise_sroi(resultado.sroi))

GerarConsideracoesFinais ==
    Relatar("gerar_consideracoes_finais", gerar_consideracoes_finais(resultado))

GerarRelatorioCompleto ==
    \E agora \in Instantes :
        Relatar("gerar_relatorio_completo",
                gerar_relatorio_completo(resultado, "IBEDIS", agora))

GerarRelatorioResumido ==
    \E agora \in Instantes :
        Relatar("gerar_relatorio_resumido",
                gerar_relatorio_resumido(resultado, agora))

GerarCertificadoImpacto ==
    \E agora \in Instantes, numero_certificado \in NumerosDeCertificado :
        Relatar("gerar_certificado_impacto",
                gerar_certificado_impacto(resultado, numero_certificado, agora))

ExportarDadosJson ==
    \E agora \in Instantes :
        Relatar("exportar_dados_json", exportar_dados_json(resultado, agora))

ExportarResultadoJson ==
    Relatar("exportar_resultado_json", exportar_resultado_json(resultado))

NextRel ==
    \/ Calcular
    \/ GerarRecomendacoes
    \/ GerarAnaliseSroi
    \/ GerarConsideracoesFinais
    \/ GerarRelatorioCompleto
    \/ GerarRelatorioResumido
    \/ GerarCertificadoImpacto
    \/ ExportarDadosJson
    \/ ExportarResultadoJson

SpecRel == InitRel /\ [][NextRel]_vars

(***************************************************************************)
(* One browser session of the web application                              *)
(***************************************************************************)

\* how many entries the audit log may hold
MaxRegistros == 4

motor == <<tabelas, entrada, pc, resultado, recomendacoes, relatorio, historico>>

InitApp ==
    /\ tabelas = TabelasIniciais
    /\ entrada = Nenhum
    /\ pc = "inicio"
    /\ resultado = Nenhum
    /\ recomendacoes = <<>>
    /\ relatorio = Nenhum
    /\ historico = <<>>
    /\ sessao = init_session
    /\ tela = main(init_session, "")
    /\ auditoria = <<>>

\* the session after a handler and st.rerun(): main() runs on it, and what
\* the interrupted run had drawn is gone
Rerun(s) ==
    /\ sessao' = AposAnaliseManual(s)
    /\ tela' = main(AposAnaliseManual(s), "")

\* the login form is submitted with the credentials of user
Entrar ==
    /\ tela.funcao = "render_login"
    /\ Len(auditoria) < MaxRegistros
    /\ \E user \in Usuarios :
           /\ Rerun(login(sessao, user))
           /\ auditoria' = Append(auditoria, [usuario_id |-> user.id,
                                               acao       |-> "LOGIN"])
    /\ UNCHANGED motor

\* the login form is submitted with credentials the database rejects
EntrarSemSucesso ==
    /\ tela.funcao = "render_login"
    /\ sessao' = login(sessao, None)
    /\ tela' = [tela EXCEPT !.mensagem = "Email ou senha incorretos"]
    /\ UNCHANGED <<motor, auditoria>>

\* the button Cadastrar of the login form
Cadastrar ==
    /\ tela.funcao = "render_login"
    /\ Rerun([sessao EXCEPT !.pagina = "cadastro"])
    /\ UNCHANGED <<motor, auditoria>>

\* the registration form: account created, or the button back
VoltarAoLogin ==
    /\ tela.funcao = "render_cadastro"
    /\ Rerun([sessao EXCEPT !.pagina = "login"])
    /\ UNCHANGED <<motor, auditoria>>

\* a button of the sidebar menu
Navegar ==
    /\ sessao.logged_in
    /\ \E pagina \in tela.menu :
           Rerun([sessao EXCEPT !.pagina = pagina])
    /\ UNCHANGED <<motor, auditoria>>

\* a button or form of the page on screen
AcionarBotao ==
    /\ sessao.logged_in
    /\ \E s \in BotoesDaPagina(tela.funcao, sessao) : Rerun(s)
    /\ UNCHANGED <<motor, auditoria>>

\* the button Sair of the sidebar
Sair ==
    /\ sessao.logged_in
    /\ Len(auditoria) < MaxRegistros
    /\ auditoria' = IF sessao.user # None
                     THEN Append(auditoria, [usuario_id |-> sessao.user.id,
                                             acao       |-> "LOGOUT"])
                     ELSE auditoria
    /\ Rerun(logout(sessao))
    /\ UNCHANGED motor

NextApp ==
    \/ Entrar
    \/ EntrarSemSucesso
    \/ Cadastrar
    \/ VoltarAoLogin
    \/ Navegar
    \/ AcionarBotao
    \/ Sair

SpecApp == InitApp /\ [][NextApp]_vars

(***************************************************************************)
(* Work plans of a partnership (visia_mrosc.py): the budget, the stages    *)
(* and the Markdown export.  The values of a plan are held in 1/48 of a    *)
(* centavo, so that the shares of a team of 1 to 4 people in a total of    *)
(* whole thousands of reais are whole numbers.                             *)
(***************************************************************************)

Reais(r) == 4800 * r

\* one ItemOrcamento
ItemOrcamento(categoria, descricao, quantidade, valor_unitario, valor_total) ==
    [ categoria      |-> categoria,
      descricao      |-> descricao,
      quantidade     |-> quantidade,
      valor_unitario |-> valor_unitario,
      valor_total    |-> valor_total ]

\* salario_medio * 1.5: what the coordinator is paid
SalarioCoordenador(salario) == (salario \div 2) * 3

\* gerar_orcamento_detalhado(valor_total, duracao_meses, tipo_projeto,
\* equipe_necessaria): the eight items, in list order.  salario_no_projeto
\* is salario_medio * duracao_meses, that is valor_pessoal / equipe; a unit
\* value divided by the months is written out to the unit of the model.
gerar_orcamento_detalhado(valor_total, duracao_meses, equipe_necessaria) ==
    IF equipe_necessaria = 0 \/ duracao_meses = 0
    THEN [erro |-> "ZeroDivisionError", itens |-> <<>>]
    ELSE
    LET valor_pessoal  == (valor_total \div 100) * 50
        valor_material == (valor_total \div 100) * 15
        valor_servicos == (valor_total \div 100) * 20
        valor_outros   == (valor_total \div 100) * 15
        salario_no_projeto == valor_pessoal \div equipe_necessaria
        salario_medio      == salario_no_projeto \div duracao_meses
    IN  [ erro  |-> "",
          itens |->
            << ItemOrcamento("pessoal", "Coordenador(a) do Projeto",
                             duracao_meses, SalarioCoordenador(salario_medio),
                             SalarioCoordenador(salario_no_projeto)),
               ItemOrcamento("pessoal", "Tecnico(s) de referencia",
                             duracao_meses * (equipe_necessaria - 1),
                             salario_medio,
                             salario_no_projeto * (equipe_necessaria - 1)),
               ItemOrcamento("material", "Material de escritorio e consumo",
                             duracao_meses,
                             ((valor_material \div 10) * 3) \div duracao_meses,
                             (valor_material \div 10) * 3),
               ItemOrcamento("material", "Material especifico para atividades",
                             1, (valor_material \div 10) * 7,
                             (valor_material \div 10) * 7),
               ItemOrcamento("servicos", "Servicos contabeis", duracao_meses,
                             ((valor_servicos \div 10) * 2) \div duracao_meses,
                             (valor_servicos \div 10) * 2),
               ItemOrcamento("servicos", "Consultoria tecnica especializada",
                             2, ((valor_servicos \div 10) * 4) \div 2,
                             (valor_servicos \div 10) * 4),
               ItemOrcamento("servicos", "Comunicacao e divulgacao", 1,
                             (valor_servicos \div 10) * 4,
                             (valor_servicos \div 10) * 4),
               ItemOrcamento("outros", "Custos indiretos (ate 15%)", 1,
                             valor_outros, valor_outros) >> ]

\* stage i of n in a plan of duracao_meses months (lines 606 to 614)
Etapa(i, n, duracao_meses, valor_total) ==
    [ numero     |-> i,
      inicio_mes |-> IF i = 1 THEN 1 ELSE (i - 1) * (duracao_meses \div n) + 1,
      fim_mes    |-> i * (duracao_meses \div n),
      responsavel          |-> "Coordenacao do Projeto",
      recursos_necessarios |-> valor_total \div n ]

\* gerar_plano_trabalho_completo, a: its arguments, a.metas the number of
\* goals in the list metas
gerar_plano_trabalho_completo(a) ==
    LET n == a.metas
        etapas == [i \in 1..n |-> Etapa(i, n, a.duracao_meses, a.valor_total)]
        orcamento == gerar_orcamento_detalhado(a.valor_total, a.duracao_meses,
                                               a.equipe_necessaria)
    IN  IF orcamento.erro # ""
        THEN [status |-> orcamento.erro]
        ELSE [ status          |-> "ok",
               duracao_meses   |-> a.duracao_meses,
               metas           |-> n,
               etapas          |-> etapas,
               valor_total     |-> a.valor_total,
               valor_osc       |-> 0,
               valor_parceiro  |-> a.valor_total,
               itens_orcamento |-> orcamento.itens ]

\* f"{valor:,.2f}": the value in centavos, to the nearest
Formatar2(valor) == Arredondar(Decimal(valor, 48, 1))

RECURSIVE TotalOrcamento(_)
\* total_orcamento = 0; for item in itens: total_orcamento += item.valor_total
TotalOrcamento(itens) ==
    IF itens = <<>> THEN 0
    ELSE TotalOrcamento(SubSeq(itens, 1, Len(itens) - 1))
             + itens[Len(itens)].valor_total

\* exportar_plano_markdown(plano): the texts it can return, of which the
\* model keeps the row 'Valor Total', the rows of the stages and the row
\* TOTAL of the budget
exportar_plano_markdown(plano) ==
    { [ valor_total |-> v, cronograma |-> plano.etapas, total |-> t ] :
        v \in Formatar2(plano.valor_total),
        t \in Formatar2(TotalOrcamento(plano.itens_orcamento)) }

\* how many goals a plan is given
MaxMetas == 4

\* the arguments of gerar_plano_trabalho_completo that the plan depends on
EntradasDePlano ==
    [ valor_total       : {Reais(1000), Reais(100000), Reais(250000)},
      duracao_meses     : {0, 1, 2, 7, 12},
      equipe_necessaria : {0, 1, 2, 3, 4},
      metas             : 0..MaxMetas ]

InitPlano ==
    /\ tabelas = TabelasIniciais
    /\ entrada \in EntradasDePlano
    /\ pc = "inicio"
    /\ resultado = Nenhum
    /\ recomendacoes = <<>>
    /\ relatorio = Nenhum
    /\ historico = <<>>
    /\ sessao = init_session
    /\ tela = Nenhum
    /\ auditoria = <<>>

\* the call gerar_plano_trabalho_completo(...)
GerarPlanoTrabalhoCompleto ==
    /\ pc = "inicio"
    /\ resultado' = gerar_plano_trabalho_completo(entrada)
    /\ pc' = "fim"
    /\ UNCHANGED <<tabelas, entrada, recomendacoes, relatorio, historico, sessao, tela, auditoria>>

\* the call exportar_plano_markdown(plano) on the plan returned
ExportarPlanoMarkdown ==
    /\ pc = "fim"
    /\ resultado.status = "ok"
    /\ relatorio' \in exportar_plano_markdown(resultado)
    /\ pc' = "exportado"
    /\ UNCHANGED <<tabelas, entrada, resultado, recomendacoes, historico, sessao, tela, auditoria>>

NextPlano == GerarPlanoTrabalhoCompleto \/ ExportarPlanoMarkdown

SpecPlano == InitPlano /\ [][NextPlano]_vars

(***************************************************************************)
(* Calls of calcular_impacto_ambiental made one after the other            *)
(***************************************************************************)

\* how many calls are made
MaxChamadasAmbientais == 2

\* the arguments of calcular_impacto_ambiental: biomes and methods that are
\* keys of the cost table and that are not; investments for which the
\* ratio is not halfway between two hundredths, where two floats of the
\* same value round alike and the model would let each call round its way
EntradasAmbientais ==
    [ investimento       : {Dec(50000), Dec(250000)},
      hectares           : {20},
      bioma              : {"cerrado", "bioma_desconhecido"},
      metodo_recuperacao : {"plantio_total", "regeneracao_natural",
                            "metodo_desconhecido"},
      anos_projeto       : {10, 12},
      incluir_psa        : BOOLEAN,
      incluir_carbono    : {TRUE} ]

InitAmb ==
    /\ tabelas = TabelasIniciais
    /\ entrada \in EntradasAmbientais
    /\ pc = "inicio"
    /\ resultado = Nenhum
    /\ recomendacoes = <<>>
    /\ relatorio = Nenhum
    /\ historico = <<>>
    /\ sessao = init_session
    /\ tela = Nenhum
    /\ auditoria = <<>>

\* the call calcular_impacto_ambiental(**entrada)
CalcularImpactoAmbiental ==
    /\ pc = "inicio"
    /\ resultado' \in calcular_impacto_ambiental(
                          tabelas, entrada.investimento, entrada.hectares,
                          entrada.bioma, entrada.metodo_recuperacao,
                          entrada.anos_projeto, entrada.incluir_psa,
                          entrada.incluir_carbono)
    /\ historico' = Append(historico, [entrada |-> entrada, resultado |-> resultado'])
    /\ pc' = "fim"
    /\ UNCHANGED <<tabelas, entrada, recomendacoes, relatorio, sessao, tela, auditoria>>

\* the caller makes another call
OutraChamadaAmbiental ==
    /\ pc = "fim"
    /\ Len(historico) < MaxChamadasAmbientais
    /\ entrada' \in EntradasAmbientais
    /\ pc' = "inicio"
    /\ resultado' = Nenhum
    /\ UNCHANGED <<tabelas, recomendacoes, relatorio, historico, sessao, tela, auditoria>>

NextAmb == CalcularImpactoAmbiental \/ OutraChamadaAmbiental

SpecAmb == InitAmb /\ [][NextAmb]_vars

(***************************************************************************)
(* Properties                                                              *)
(***************************************************************************)

\* the scoring call returned a result record
Retornou == pc # "inicio" /\ resultado.status = "ok"

\* C1: for investment > 0 and beneficiaries >= 1 the sroi returned lies in
\* the closed band [0.5 * min, 1.5 * max] of the range returned in sroi_range,
\* and that range is the one the project type resolves to.
SroiDentroDaFaixa ==
    (Retornou /\ entrada.investimento_total > 0
        /\ entrada.beneficiarios_diretos >= 1) =>
        LET s == resultado.sroi
            ref == get_sroi_referencia(tabelas, entrada.tipo_projeto)
        IN  /\ s.sroi_range = <<ref.min, ref.max>>
            /\ 5 * s.sroi_range[1] <= s.sroi
            /\ s.sroi <= 15 * s.sroi_range[2]

\* the signals are worth more than twenty times the investment, above the
\* band of every range, and the sroi returned is the top of the band
SroiLimitadoAoTeto ==
    /\ Retornou
    /\ entrada.investimento_total > 0
    /\ entrada.beneficiarios_diretos >= 1
    /\ resultado.sroi.valor_social_liquido > 20 * resultado.sroi.investimento
    /\ resultado.sroi.sroi = 15 * resultado.sroi.sroi_range[2]

\* C2: for every valid input the credits returned equal
\* max(100, floor(uisv * 0.3 * (investment / 10000))).
TcsIgualAoPisoDoProduto ==
    (Retornou /\ Valida(entrada)) =>
        resultado.tcs_recomendados =
            Max(100, MulDivFloor(3 * resultado.uisv,
                                 resultado.investimento_total, 100000000).q)

\* the part of C2 that does not depend on the value of the product at an
\* integer: the credits returned are an integer of at least 100, the floor
\* of the product or the integer before it
TcsPeloMenosCem ==
    (Retornou /\ Valida(entrada)) =>
        LET piso == MulDivFloor(3 * resultado.uisv,
                                resultado.investimento_total, 100000000).q
        IN  /\ resultado.tcs_recomendados \in Nat
            /\ resultado.tcs_recomendados >= 100
            /\ resultado.tcs_recomendados \in {Max(100, piso), Max(100, piso - 1)}

\* C3: the classification is a total partition of the index: exactly one of
\* A, B, C, D, with A from 20.00, B from 12.00 to 19.99, C from 6.00 to
\* 11.99 and D below 6.00.
ClassificacaoParticionaUisv ==
    Retornou =>
        LET u == resultado.uisv
            c == resultado.classificacao
        IN  /\ c \in {"A", "B", "C", "D"}
            /\ (c = "A") <=> (u >= 2000)
            /\ (c = "B") <=> (1200 <= u /\ u < 2000)
            /\ (c = "C") <=> (600 <= u /\ u < 1200)
            /\ (c = "D") <=> (u < 600)

\* a result whose index is exactly 20.00, classified A
UisvVinteClasseA ==
    Retornou /\ resultado.uisv = 2000 /\ resultado.classificacao = "A"

\* the other boundary values, each in its tier
UisvAbaixoDeVinteClasseB ==
    Retornou /\ resultado.uisv = 1999 /\ resultado.classificacao = "B"
UisvDozeClasseB ==
    Retornou /\ resultado.uisv = 1200 /\ resultado.classificacao = "B"
UisvAbaixoDeDozeClasseC ==
    Retornou /\ resultado.uisv = 1199 /\ resultado.classificacao = "C"
UisvSeisClasseC ==
    Retornou /\ resultado.uisv = 600 /\ resultado.classificacao = "C"
UisvAbaixoDeSeisClasseD ==
    Retornou /\ resultado.uisv = 599 /\ resultado.classificacao = "D"

\* C4: a call with investment <= 0 or beneficiaries < 1 reports a validation
\* error before any sub-calculator runs: no result, no arithmetic fault.
EntradaInvalidaRejeitada ==
    (pc # "inicio" /\ (entrada.investimento_total <= 0
                          \/ entrada.beneficiarios_diretos < 1)) =>
        /\ resultado.status = "ValidationError"
        /\ resultado.chamadas = <<>>

\* C5: every structurally valid input, tags absent from the tables included,
\* completes without raising and returns a complete result.
EntradaValidaDaResultadoCompleto ==
    (pc # "inicio" /\ Valida(entrada)) =>
        /\ resultado.status = "ok"
        /\ resultado.sroi.erro = ""
        /\ resultado.sroi.sroi \in Int
        /\ resultado.fiscal.roi_fiscal \in Int
        /\ resultado.uisv \in Int
        /\ resultado.tcs_recomendados \in Int
        /\ resultado.classificacao \in {"A", "B", "C", "D"}

\* a valid call with a project type and a biome that are in no table, both
\* optional calculators run (the crime one looks up the missing key "furto")
TagsDesconhecidasPontuadas ==
    /\ Retornou
    /\ Valida(entrada)
    /\ entrada.tipo_projeto = "tipo_desconhecido"
    /\ entrada.bioma = "bioma_desconhecido"
    /\ resultado.crime # None
    /\ resultado.ambiental # None

\* C6: the crime sub-result is present iff the crime calculator is enabled
\* and youths served > 0; when present it was computed on 30% of the total
\* investment; when absent the crime bonus added to the index is 0.
CrimePresenteSseJovens ==
    Retornou =>
        /\ (resultado.crime # None)
              <=> (entrada.calcular_crime /\ entrada.jovens_atendidos > 0)
        /\ resultado.crime # None =>
              /\ 10 * resultado.crime.investimento
                    = 3 * resultado.investimento_total
              /\ \E i \in 1..Len(resultado.chamadas) :
                    resultado.chamadas[i] = "calcular_impacto_crime"
        /\ resultado.crime = None =>
              /\ resultado.locais.bonus_crime = 0
              /\ \A i \in 1..Len(resultado.chamadas) :
                    resultado.chamadas[i] # "calcular_impacto_crime"

\* the crime calculator ran and its bonus entered the index
CrimeCalculadoComBonus ==
    /\ Retornou
    /\ resultado.crime # None
    /\ resultado.locais.bonus_crime > 0

\* C7: the environmental sub-result is present iff the environmental
\* calculator is enabled and hectares > 0; when present it was computed on
\* 40% of the total investment over max(duration, 10) years; when absent
\* the environmental bonus added to the index is 0.
AmbientalPresenteSseHectares ==
    Retornou =>
        /\ (resultado.ambiental # None)
              <=> (entrada.calcular_ambiental /\ entrada.hectares_recuperados > 0)
        /\ resultado.ambiental # None =>
              /\ 10 * resultado.ambiental.investimento
                    = 4 * resultado.investimento_total
              /\ resultado.ambiental.locais.anos_projeto
                    = Max(entrada.duracao_anos, 10)
        /\ resultado.ambiental = None => resultado.locais.bonus_ambiental = 0

\* the environmental calculator ran for a project longer than 10 years
AmbientalCalculadoEmDozeAnos ==
    /\ Retornou
    /\ resultado.ambiental # None
    /\ entrada.duracao_anos = 12
    /\ resultado.ambiental.locais.anos_projeto = 12

\* a rule of gerar_recomendacoes fires on the result
AlgumaRegraDispara ==
    \/ resultado.sroi.sroi < 10 * resultado.sroi.sroi_range[1]
    \/ resultado.classificacao \in {"C", "D"}
    \/ resultado.fiscal.tempo_payback_anos.inf
    \/ resultado.fiscal.tempo_payback_anos.decimos > 50
    \/ (resultado.crime # None /\ resultado.crime.roi_seguranca > 200)
    \/ (resultado.ambiental # None /\ resultado.ambiental.roi_ambiental > 100)
    \/ resultado.tcs_recomendados > 5000

\* the default entry is in the list
TemPadrao ==
    \E i \in 1..Len(recomendacoes) :
        recomendacoes[i].texto = "Manter a estrategia atual"

\* C8: the recommendation list is never empty; the default entry is emitted
\* exactly when no rule fired, and then it is the only entry.
RecomendacoesNuncaVazias ==
    pc = "relatorio" =>
        /\ Len(recomendacoes) >= 1
        /\ TemPadrao <=> ~AlgumaRegraDispara
        /\ TemPadrao => Len(recomendacoes) = 1

\* a result on which no rule fires: the list is the default entry alone
SomenteRecomendacaoPadrao ==
    /\ pc = "relatorio"
    /\ ~AlgumaRegraDispara
    /\ recomendacoes = <<[numero |-> 1, texto |-> "Manter a estrategia atual"]>>

UisvConformeFormula ==
    (Retornou /\ Valida(entrada)) =>
        LET pessoas == ((35 * entrada.beneficiarios_diretos) \div 10) * 2
            bonus_crime == IF resultado.crime # None
                           THEN resultado.crime.roi_seguranca ELSE 0
            bonus_ambiental == IF resultado.ambiental # None
                               THEN resultado.ambiental.roi_ambiental ELSE 0
            soma == 2 * (2 * resultado.sroi.sroi + 3 * resultado.fiscal.roi_fiscal)
                        + 2 * pessoas + bonus_crime + bonus_ambiental
        IN  /\ resultado.impacto_total_pessoas = pessoas
            /\ resultado.locais.bonus_crime = bonus_crime
            /\ resultado.locais.bonus_ambiental = bonus_ambiental
            /\ Abs(2 * resultado.uisv - soma) <= 1

\* both bonuses enter the index and the sum falls halfway between two
\* hundredths
UisvComDoisBonusEmEmpate ==
    /\ Retornou
    /\ Valida(entrada)
    /\ resultado.crime # None
    /\ resultado.ambiental # None
    /\ (resultado.locais.bonus_crime + resultado.locais.bonus_ambiental) % 2 = 1

\* C11: calcular_retorno_fiscal never fails on a division: with a positive
\* total return the payback is investment / (total / horizon), to the nearest
\* tenth of a year; with no return at all the payback is the infinite
\* sentinel and the rest of the fiscal result is still produced.
PaybackDefinidoOuInfinito ==
    Retornou =>
        LET f == resultado.fiscal
            p == f.tempo_payback_anos
            exato == Decimal(f.investimento_publico * f.locais.anos_horizonte,
                             Max(1, f.retorno_fiscal_total), 10)
        IN  /\ f.retorno_fiscal_total >= 0
            /\ f.retorno_fiscal_total > 0 =>
                  /\ ~p.inf
                  /\ p.decimos \in {exato.piso, exato.piso + 1}
                  /\ p.decimos = exato.piso => 2 * exato.resto <= exato.d
                  /\ p.decimos = exato.piso + 1 => 2 * exato.resto >= exato.d
            /\ f.retorno_fiscal_total = 0 =>
                  /\ p = Infinito
                  /\ f.roi_fiscal = 0
                  /\ f.arrecadacao_gerada = 0
                  /\ f.economia_programas_sociais = 0
                  /\ f.economia_seguranca = 0
                  /\ f.economia_saude = 0
                  /\ f.observacoes = <<>>
            /\ f.investimento_publico = resultado.investimento_total

\* a valid project with no jobs, no families and no crimes avoided: the
\* payback returned is the sentinel
PaybackInfinitoRetornado ==
    /\ Retornou
    /\ Valida(entrada)
    /\ resultado.fiscal.retorno_fiscal_total = 0
    /\ resultado.fiscal.tempo_payback_anos.inf

\* a finite payback: a positive return
PaybackFinitoRetornado ==
    /\ Retornou
    /\ resultado.fiscal.retorno_fiscal_total > 0
    /\ ~resultado.fiscal.tempo_payback_anos.inf
    /\ resultado.fiscal.tempo_payback_anos.decimos > 0

\* C12: no report operation changes the result it is given: after any number
\* of report operations, in any order, every field of the result and of its
\* sub-results is what the scoring call returned.
ResultadoIntactoAposRelatorios ==
    (pc = "relatorio" \/ relatorio # Nenhum) =>
        resultado = historico[Len(historico)].resultado

\* the JSON export ran on a result with crime and environmental sub-results,
\* after the recommendations were generated
ResultadoExportadoAposRecomendacoes ==
    /\ pc = "relatorio"
    /\ relatorio # Nenhum
    /\ relatorio.operacao = "exportar_resultado_json"
    /\ resultado.crime # None
    /\ resultado.ambiental # None
    /\ resultado = historico[Len(historico)].resultado
\* the condition of the rule that emits the entry texto, on the result
RegraDispara(texto) ==
    CASE texto = "Otimizar SROI" ->
             resultado.sroi.sroi < 10 * resultado.sroi.sroi_range[1]
      [] texto = "Revisar estrategia" -> resultado.classificacao = "D"
      [] texto = "Potencial de melhoria" -> resultado.classificacao = "C"
      [] texto = "Acelerar retorno fiscal" ->
             \/ resultado.fiscal.tempo_payback_anos.inf
             \/ resultado.fiscal.tempo_payback_anos.decimos > 50
      [] texto = "Destacar impacto em seguranca" ->
             resultado.crime # None /\ resultado.crime.roi_seguranca > 200
      [] texto = "Potencial de creditos de carbono" ->
             resultado.ambiental # None /\ resultado.ambiental.roi_ambiental > 100
      [] texto = "Emissao de TCS" -> resultado.tcs_recomendados > 5000

\* the entries of recomendacoes are numbered 1, 2, ... and their texts are
\* those of the rules of ordem that fire, in the order of ordem; the default
\* entry alone when none of them fires
ListaConformeOrdem(ordem) ==
    LET esperados == SelectSeq(ordem, RegraDispara)
        textos == IF esperados = <<>> THEN <<"Manter a estrategia atual">>
                  ELSE esperados
    IN  /\ Len(recomendacoes) = Len(textos)
        /\ \A i \in 1..Len(textos) :
               recomendacoes[i] = [numero |-> i, texto |-> textos[i]]

\* C13 as stated: the rules are the six on sroi, tier D, payback, crime
\* ratio, environmental ratio and credits; the list holds one entry for each
\* of them that fires and nothing else, in that order.
RecomendacoesDasSeisRegras ==
    pc = "relatorio" =>
        ListaConformeOrdem(<< "Otimizar SROI", "Revisar estrategia",
                              "Acelerar retorno fiscal",
                              "Destacar impacto em seguranca",
                              "Potencial de creditos de carbono",
                              "Emissao de TCS" >>)

\* C13, amended: the rules are evaluated in the fixed order sroi below its
\* floor, tier D or else tier C, payback > 5, crime ratio > 2, environmental
\* ratio > 1, credits > 5000; every rule that fires contributes exactly one
\* entry, a rule that does not fire none, no entry is duplicated and the
\* output order is the evaluation order.
RecomendacoesNaOrdemDasRegras ==
    pc = "relatorio" =>
        /\ ListaConformeOrdem(<< "Otimizar SROI", "Revisar estrategia",
                                 "Potencial de melhoria",
                                 "Acelerar retorno fiscal",
                                 "Destacar impacto em seguranca",
                                 "Potencial de creditos de carbono",
                                 "Emissao de TCS" >>)
        /\ \A i, j \in 1..Len(recomendacoes) :
               recomendacoes[i].texto = recomendacoes[j].texto => i = j

\* five rules fire on one result
CincoRegrasDisparam ==
    /\ pc = "relatorio"
    /\ Len(recomendacoes) >= 5
    /\ \A i \in 1..Len(recomendacoes) : RegraDispara(recomendacoes[i].texto)

\* the rule on tier C fires together with a rule evaluated before it and a
\* rule evaluated after it
RegraDaClasseCDispara ==
    /\ pc = "relatorio"
    /\ Len(recomendacoes) >= 3
    /\ recomendacoes[2].texto = "Potencial de melhoria"
\* C14: the youths kept from crime are floor(youths * base rate * reduction
\* rate) (base rate 0.05 in an urban area); each category count is
\* floor(avoided * proportion) for homicide 2%, robbery 15%, theft 25%,
\* trafficking 10%, other 48%, homicide being raised to 1 exactly when
\* avoided > 0; with avoided = 0 every count, homicide included, is 0.
CrimesDistribuidosPorCategoria ==
    (Retornou /\ resultado.crime # None) =>
        LET evitam == resultado.crime.locais.jovens_evitam_crime
            c == resultado.crime.crimes_evitados
            piso(proporcao) == (evitam * proporcao) \div 100
        IN  /\ evitam = (entrada.jovens_atendidos * 5 * 70) \div 10000
            /\ c.homicidios = IF evitam > 0 THEN Max(1, piso(2)) ELSE 0
            /\ c.roubos = piso(15)
            /\ c.furtos = piso(25)
            /\ c.trafico = piso(10)
            /\ c.outros = piso(48)
\* C15: on the result of a scoring call with valid input, the payback being
\* infinite or not, gerar_relatorio_completo and gerar_consideracoes_finais
\* return a report and do not raise.
RelatorioSempreGerado ==
    ( /\ relatorio # Nenhum
      /\ relatorio.operacao \in {"gerar_relatorio_completo",
                                  "gerar_consideracoes_finais"}
      /\ Valida(entrada) ) =>
        relatorio.retorno.status = "ok"
\* C16: for every value of TipoProjeto calcular_sroi resolves a range of
\* that type's own, education to (1.5, 3.5); the default range (1.0, 3.0) is
\* used only for a tag that is no known project type.
FaixaPropriaDoTipoDeProjeto ==
    (Retornou /\ entrada.tipo_projeto \in TipoProjeto) =>
        /\ resultado.sroi.sroi_range # <<SROI_PADRAO.min, SROI_PADRAO.max>>
        /\ entrada.tipo_projeto = "educacao" =>
               resultado.sroi.sroi_range = <<15, 35>>
\* C17: the avoided crime cost is the sum over the categories of count times
\* cost per crime, and a category the table has an entry for (homicide,
\* robbery, theft) is monetized at that entry, not at the default of the
\* lookup.  Trafficking and other, which the table has no entry for, are
\* taken at the amounts of the code.
CrimesCustamOQueATabelaDiz ==
    (Retornou /\ resultado.crime # None) =>
        LET c == resultado.crime.crimes_evitados
            custo == tabelas.custo_por_crime
        IN  resultado.crime.locais.economia_total_crimes
                = c.homicidios * custo.homicidio
                  + c.roubos * custo.roubo_carga_medio
                  + c.furtos * custo.furto_medio
                  + c.trafico * Dec(100000)
                  + c.outros * Dec(20000)
\* C18: the scoring call passes a biome and no method to the environmental
\* calculator, so the cost per hectare reported is the reference cost of
\* the biome (3000 for cerrado), the default 2500 for an unknown biome.
CustoPorHectareDoBioma ==
    (Retornou /\ resultado.ambiental # None) =>
        resultado.ambiental.custo_por_hectare
            = get_custo_recuperacao(tabelas, entrada.bioma)
\* C19: over any sequence of logins, logouts and navigation in one browser
\* session, main() renders the administration pages (admin, usuarios, api)
\* only while the user logged in is an administrador, and the audit page
\* only for an administrador or an auditor.
PaginasRestritasSoParaAutorizados ==
    /\ tela.funcao \in {"pagina_admin", "pagina_usuarios"} =>
           sessao.user # None /\ sessao.user.tipo = "administrador"
    /\ tela.funcao = "pagina_auditoria" =>
           sessao.user # None /\ sessao.user.tipo \in {"administrador", "auditor"}
\* the four optional signals calcular_sroi values are all zero
SemSinais ==
    /\ entrada.empregos_gerados = 0
    /\ entrada.familias_saem_vulnerabilidade = 0
    /\ entrada.alunos_evitam_evasao = 0
    /\ entrada.hectares_recuperados = 0

\* C20: for valid input the component impacto_direto_beneficiarios is among
\* the components of the SROI exactly when the four optional signals are
\* all zero; it is then the only component, worth investment * reference
\* midpoint * 0.5; when a signal is positive the gross social value is the
\* sum of the components of the signals present alone.
BaselineSomenteSemSinais ==
    (Retornou /\ Valida(entrada)) =>
        LET c == resultado.sroi.componentes
            medio == get_sroi_referencia(tabelas, entrada.tipo_projeto).medio
            dos_sinais ==
                (IF entrada.empregos_gerados > 0 THEN {"empregos_gerados"} ELSE {})
                \cup (IF entrada.familias_saem_vulnerabilidade > 0
                      THEN {"saida_vulnerabilidade"} ELSE {})
                \cup (IF entrada.alunos_evitam_evasao > 0
                      THEN {"prevencao_evasao"} ELSE {})
                \cup (IF entrada.hectares_recuperados > 0
                      THEN {"recuperacao_ambiental"} ELSE {})
        IN  /\ "impacto_direto_beneficiarios" \in DOMAIN c <=> SemSinais
            /\ SemSinais =>
                   /\ DOMAIN c = {"impacto_direto_beneficiarios"}
                   /\ 2 * c["impacto_direto_beneficiarios"]
                          = entrada.investimento_total * medio
                   /\ resultado.sroi.valor_social_bruto
                          = c["impacto_direto_beneficiarios"]
            /\ ~SemSinais =>
                   /\ DOMAIN c = dos_sinais
                   /\ resultado.sroi.valor_social_bruto = SomaDe(c, dos_sinais)

\* a result whose only component is the baseline, for 2000 beneficiaries
SomenteBaselineNosComponentes ==
    /\ Retornou
    /\ Valida(entrada)
    /\ SemSinais
    /\ entrada.beneficiarios_diretos = 2000
    /\ DOMAIN resultado.sroi.componentes = {"impacto_direto_beneficiarios"}
    /\ resultado.sroi.componentes["impacto_direto_beneficiarios"] > 0

\* a result with components of signals and no baseline
ComponentesDosSinaisSemBaseline ==
    /\ Retornou
    /\ Valida(entrada)
    /\ Cardinality(DOMAIN resultado.sroi.componentes) >= 2
    /\ "impacto_direto_beneficiarios" \notin DOMAIN resultado.sroi.componentes

\* the largest factor by which a beneficiary count is multiplied
MaxFator == 2

\* calls i and j of the sequence returned, took no signal and were made with
\* the same arguments but for the beneficiary count
ChamadasDeBaseline(i, j) ==
    /\ historico[i].resultado.status = "ok"
    /\ historico[j].resultado.status = "ok"
    /\ DOMAIN historico[i].resultado.sroi.componentes = {"impacto_direto_beneficiarios"}
    /\ DOMAIN historico[j].resultado.sroi.componentes = {"impacto_direto_beneficiarios"}
    /\ [historico[i].entrada EXCEPT !.beneficiarios_diretos = 1]
           = [historico[j].entrada EXCEPT !.beneficiarios_diretos = 1]

NotasDeTodoResultado ==
    { ObservacaoClassificacao(c) : c \in {"A", "B", "C", "D"} }
        \cup {"Multiplicador social", "UISV"}

\* C22: whenever calcular_sroi takes the fallback path, the notes of the SROI
\* result or of the composite result hold an entry recording the use of the
\* baseline: the SROI notes are not empty, or the composite notes hold an
\* entry other than the three every result carries.
UsoDoBaselineAnotado ==
    (Retornou /\ Valida(entrada) /\ SemSinais) =>
        \/ resultado.sroi.observacoes # <<>>
        \/ \E i \in 1..Len(resultado.observacoes) :
               resultado.observacoes[i] \notin NotasDeTodoResultado

\* the positions of a calculator among the calls of the scoring run
PosicoesDe(calculadora) ==
    { i \in 1..Len(resultado.chamadas) : resultado.chamadas[i] = calculadora }

\* C23: a scoring run that returns has called the fiscal calculator exactly
\* once, after the crime calculator when that one ran (which is exactly when
\* the crime sub-result is present), with the whole investment, the horizon
\* max(duration, 10) and, as avoided-crime count, the sum of the counts of
\* the categories of the crime sub-result, 0 when the crime step was skipped.
FiscalChamadoUmaVezAposCrime ==
    Retornou =>
        LET f == resultado.fiscal
            c == resultado.crime
        IN  /\ Cardinality(PosicoesDe("calcular_retorno_fiscal")) = 1
            /\ \A i \in PosicoesDe("calcular_impacto_crime") :
                   \A j \in PosicoesDe("calcular_retorno_fiscal") : i < j
            /\ c # None <=> PosicoesDe("calcular_impacto_crime") # {}
            /\ f.investimento_publico = Dec(entrada.investimento_total)
            /\ f.locais.anos_horizonte
                   = (IF entrada.duracao_anos > 10 THEN entrada.duracao_anos ELSE 10)
            /\ c # None =>
                   f.locais.crimes_evitados
                       = c.crimes_evitados.homicidios + c.crimes_evitados.roubos
                           + c.crimes_evitados.furtos + c.crimes_evitados.trafico
                           + c.crimes_evitados.outros
            /\ c = None => f.locais.crimes_evitados = 0

\* a run of 12 years whose crime step ran and kept youths from crime
FiscalRecebeCrimesDoSubResultado ==
    /\ Retornou
    /\ entrada.duracao_anos = 12
    /\ resultado.crime # None
    /\ resultado.fiscal.locais.crimes_evitados > 1
    /\ resultado.fiscal.locais.anos_horizonte = 12

\* the arguments of a call with its four optional signals set to zero
SemOsSinais(a) ==
    [a EXCEPT !.empregos_gerados = 0, !.familias_saem_vulnerabilidade = 0,
              !.alunos_evitam_evasao = 0, !.hectares_recuperados = 0]

\* C24: of two calls that returned and were made with the same arguments but
\* for the optional signals, when no signal of the second is below that of
\* the first the sroi of the second is not below the sroi of the first.
SroiNaoDecresceComOsSinais ==
    \A i, j \in 1..Len(historico) :
        LET a == historico[i].entrada
            b == historico[j].entrada
        IN  (/\ historico[i].resultado.status = "ok"
             /\ historico[j].resultado.status = "ok"
             /\ SemOsSinais(a) = SemOsSinais(b)
             /\ a.empregos_gerados <= b.empregos_gerados
             /\ a.familias_saem_vulnerabilidade <= b.familias_saem_vulnerabilidade
             /\ a.alunos_evitam_evasao <= b.alunos_evitam_evasao
             /\ a.hectares_recuperados <= b.hectares_recuperados)
                => historico[i].resultado.sroi.sroi
                       <= historico[j].resultado.sroi.sroi

\* C25: the counts of the categories of a crime sub-result add up to no more
\* than the number of youths kept from crime they were distributed from.
CrimesNaoExcedemJovensAfastados ==
    (Retornou /\ resultado.crime # None) =>
        LET c == resultado.crime.crimes_evitados
        IN  c.homicidios + c.roubos + c.furtos + c.trafico + c.outros
                <= resultado.crime.locais.jovens_evitam_crime

\* C26: in every state of a browser session, whatever logins (accepted or
\* rejected), logouts, registrations and navigations led to it, logged_in is
\* true exactly when user is not None; when logged_in is false the session
\* holds no project data (projeto_atual, dados_extraidos and
\* resultado_analise are None) and main() renders the login page or the
\* registration page, with no menu.
SessaoCoerente ==
    /\ sessao.logged_in <=> sessao.user # None
    /\ ~sessao.logged_in =>
           /\ sessao.projeto_atual = None
           /\ sessao.dados_extraidos = None
           /\ sessao.resultado_analise = None
           /\ tela.funcao \in {"render_login", "render_cadastro"}
           /\ tela.menu = {}

\* the login page after a user logged in and out again from another page
LoginAposSair ==
    /\ ~sessao.logged_in
    /\ sessao.pagina \notin {"inicio", "login", "cadastro"}
    /\ Len(auditoria) >= 2
    /\ auditoria[Len(auditoria)].acao = "LOGOUT"
    /\ tela.funcao = "render_login"

\* the plan was generated from arguments with a positive total, at least one
\* month and a team of at least one
PlanoGerado ==
    /\ pc \in {"fim", "exportado"}
    /\ resultado.status = "ok"
    /\ entrada.valor_total > 0
    /\ entrada.duracao_meses >= 1
    /\ entrada.equipe_necessaria >= 1

\* the sum of valor_total over the items of a category
TotalDaCategoria(categoria) ==
    TotalOrcamento(SelectSeq(resultado.itens_orcamento,
                             LAMBDA item : item.categoria = categoria))

\* C27: for a positive total, at least one month and a team of at least one,
\* the items of the budget of the plan add up to the total of the plan, 50%
\* of it in personnel, 15% in material, 20% in services and 15% in other
\* costs, and the row TOTAL of the exported plan shows the amount of its row
\* 'Valor Total'.
OrcamentoSomaValorTotal ==
    PlanoGerado =>
        /\ TotalOrcamento(resultado.itens_orcamento) = resultado.valor_total
        /\ 100 * (TotalDaCategoria("pessoal") \div 100) = 50 * (resultado.valor_total \div 100)
        /\ pc = "exportado" => relatorio.total = relatorio.valor_total

\* C28: in a plan generated for n >= 1 goals and at least one month the
\* stages are numbered 1 to n, each starts no earlier than month 1, ends no
\* earlier than it starts and no later than the last month of the plan, and
\* each stage but the first starts the month after the one before it ends.
EtapasDentroDoPrazo ==
    (PlanoGerado /\ entrada.metas >= 1) =>
        LET etapas == resultado.etapas
        IN  /\ Len(etapas) = entrada.metas
            /\ \A i \in 1..Len(etapas) :
                   /\ etapas[i].numero = i
                   /\ 1 <= etapas[i].inicio_mes
                   /\ etapas[i].inicio_mes <= etapas[i].fim_mes
                   /\ etapas[i].fim_mes <= entrada.duracao_meses
            /\ \A i \in 1..(Len(etapas) - 1) :
                   etapas[i + 1].inicio_mes = etapas[i].fim_mes + 1

\* calls i and j of calcular_impacto_ambiental agree on the investment, the
\* hectares, the horizon and the two flags
MesmoProjetoAmbiental(i, j) ==
    LET a == historico[i].entrada
        b == historico[j].entrada
    IN  /\ a.investimento = b.investimento
        /\ a.hectares = b.hectares
        /\ a.anos_projeto = b.anos_projeto
        /\ a.incluir_psa = b.incluir_psa
        /\ a.incluir_carbono = b.incluir_carbono

\* C29: two calls of calcular_impacto_ambiental that agree on investment,
\* hectares, horizon and flags return the same carbon value, PES value,
\* biodiversity value, total of benefits, tonnes of CO2 and roi_ambiental,
\* whatever biome and method each was given.
RetornoAmbientalIndependeDoBioma ==
    \A i, j \in 1..Len(historico) :
        MesmoProjetoAmbiental(i, j) =>
            LET r == historico[i].resultado
                q == historico[j].resultado
            IN  /\ r.beneficios_carbono = q.beneficios_carbono
                /\ r.beneficios_psa = q.beneficios_psa
                /\ r.beneficios_biodiversidade = q.beneficios_biodiversidade
                /\ r.valor_total_beneficios = q.valor_total_beneficios
                /\ r.toneladas_co2_sequestradas = q.toneladas_co2_sequestradas
                /\ r.roi_ambiental = q.roi_ambiental

\* the same project scored for two biomes and two methods, at two costs per
\* hectare
MesmoProjetoEmDoisBiomas ==
    /\ Len(historico) = 2
    /\ MesmoProjetoAmbiental(1, 2)
    /\ historico[1].entrada.bioma # historico[2].entrada.bioma
    /\ historico[1].entrada.metodo_recuperacao
           # historico[2].entrada.metodo_recuperacao
    /\ historico[1].resultado.custo_por_hectare
           # historico[2].resultado.custo_por_hectare

\* C30: the security section of a full report shows, as youths kept from
\* crime and as incarcerations avoided, the counts jovens_evitam_crime and
\* encarcerados_evitados = int(jovens_evitam_crime * 0.30) that
\* calcular_impacto_crime used for the crime sub-result reported.
SecaoCrimeConformeCalculadora ==
    (/\ relatorio # Nenhum
     /\ relatorio.operacao = "gerar_relatorio_completo"
     /\ relatorio.retorno.status = "ok"
     /\ resultado.crime # None) =>
        /\ ~relatorio.retorno.secao_crime.vazia
        /\ relatorio.retorno.secao_crime.jovens_afastados
               = resultado.crime.locais.jovens_evitam_crime
        /\ relatorio.retorno.secao_crime.encarceramentos_evitados
               = resultado.crime.locais.encarcerados_evitados

====
